---- MODULE Spec2Model ----
(***************************************************************************)
(* Model of the cosmo document pipeline (backend/document_processor.py):   *)
(* the Markdown section parser, the section chunker, the file chunker and  *)
(* the document indexer with its vector store.                             *)
(*                                                                         *)
(* Text is modelled as a sequence of one-character strings, so that        *)
(* str.split, str.strip, str.find, slicing and len are computed the way    *)
(* Python computes them.                                                   *)
(***************************************************************************)
EXTENDS Integers, Sequences, FiniteSets, TLC

VARIABLES
    \* ---- chunk_section(section, max_size, overlap) ----
    section,        \* the MarkdownSection argument: [heading, body]
    max_size,       \* argument max_size
    overlap,        \* argument overlap
    raw,            \* local raw_chunks at the end of the paragraph loop
    overlapped,     \* the returned list
    cpc,            \* "none" | "call" | "done"
    \* ---- parse_markdown_sections(content), chunk_markdown_file(content, ...) ----
    content,            \* argument content
    heading_positions,  \* local heading_positions after the first pass
    sections,           \* the list parse_markdown_sections returns
    results,            \* the list chunk_markdown_file returns
    ppc,                \* "none" | "call" | "done"
    \* ---- DocumentProcessor.ingest_markdown(md_path, force) ----
    collection,     \* the records of the vector store collection
    file_chunks,    \* per file, the number of chunks chunk_markdown_file yields
    ipc,            \* "none" | "idle" | "embedding" | "returned"
    call,           \* the running or last call: its arguments, locals and outcome
    prev_call,      \* the call before it: [file, force], or NoCall
    partial,        \* per file: whether an earlier call left it partly indexed
    \* ---- filter_questions(questions, answer_key, sections, limit, shuffle) ----
    questions,      \* argument questions: a list of [id, qtype]
    answer_key,     \* argument answer_key: a dict id -> [answer]
    qsections,      \* argument sections (the set of qtype codes, or None)
    limit,          \* argument limit (an integer, or None)
    shuffle,        \* argument shuffle
    filtered,       \* the returned question list
    pruned_key,     \* the returned answer key
    \* ---- extract_answer(llm_response, qtype), grade_question(question, llm_answer, answer_key) ----
    question,       \* argument question: [id, qtype]
    llm_answer,     \* argument llm_response / llm_answer
    extracted,      \* what extract_answer returns
    result,         \* the GradedQuestion grade_question returns
    \* ---- _run_questions, run_benchmark ----
    configs,        \* argument configs of run_benchmark
    ci,             \* the configuration the loop of run_benchmark is at
    qidx,           \* the question the loop of _run_questions is at
    graded,         \* local graded of _run_questions
    bench_results,  \* local results of run_benchmark
    runs,           \* the calls of _run_questions made so far: their arguments
    tables,         \* CHAT_MODELS and QUIZ_OPTIONS of backend/config.py
    logs,           \* per finished call of _run_questions, what it asked of deterministic services
    service,        \* how the retriever and the generation service behave
    events,         \* per question of the running call: what the services did
    \* ---- _score_summary(graded), _aggregate_by_config(summaries) ----
    summary,        \* what _score_summary returns
    summaries,      \* argument summaries
    agg,            \* what _aggregate_by_config returns
    qpc,            \* position of the quiz code: "none" | "call" | "run" | "done" | "raised"
    \* ---- parse_json_quiz(data, quiz_id) ----
    data,           \* argument data: the parsed JSON document
    quiz_id,        \* argument quiz_id (a string, or None)
    parsed,         \* what the call returned, or the exception it raised
    \* ---- run_multi_benchmark(quiz_paths, ...) ----
    quiz_files,     \* per path of quiz_paths, what the file holds
    qi,             \* the path the loop is at
    all_summaries,  \* local all_summaries
    \* ---- ChatHistory, DocumentProcessor.ask_question ----
    history,        \* ChatHistory._history
    max_turns,      \* ChatHistory.max_turns
    added,          \* the turns added since the last clear
    ask,            \* the last call of ask_question: arguments, calls made, tokens yielded
    \* ---- _write_benchmark_report, _write_multi_benchmark_report ----
    report          \* what the report written says of disagreements

chunkVars == <<section, max_size, overlap, raw, overlapped, cpc>>
parseVars == <<content, heading_positions, sections, results, ppc>>
indexVars == <<collection, file_chunks, ipc, call, prev_call, partial>>
filterVars == <<questions, answer_key, qsections, limit, shuffle, filtered, pruned_key>>
gradeVars == <<question, llm_answer, extracted, result>>
benchVars == <<configs, ci, qidx, graded, bench_results, runs, events, tables, logs, service>>
aggVars == <<summary, summaries, agg>>
jsonVars == <<data, quiz_id, parsed>>
multiVars == <<quiz_files, qi, all_summaries>>
chatVars == <<history, max_turns, added, ask>>
reportVars == <<report>>
extVars == <<jsonVars, multiVars, chatVars, reportVars>>
quizVars == <<filterVars, gradeVars, benchVars, aggVars, qpc, extVars>>
vars == <<chunkVars, parseVars, indexVars, quizVars>>

(***************************************************************************)
(* Bounds of the model.                                                    *)
(***************************************************************************)
MaxBodyLen == 6      \* longest section body given to chunk_section
MaxSize == 4         \* largest max_size given to chunk_section
MaxOverlap == 3      \* largest overlap given to chunk_section
MaxLines == 4        \* most lines of a document given to parse_markdown_sections
MaxFileLines == 3    \* most lines of a document given to chunk_markdown_file
MaxFileSize == 8     \* largest max_size given to chunk_markdown_file
MaxBatches == 2      \* the largest file indexed has MaxBatches full batches and one chunk more

(***************************************************************************)
(* Python string primitives.                                               *)
(***************************************************************************)
SP == " "
NL == "\n"
\* the characters str.isspace accepts, among those of the modelled alphabet
WS == {SP, NL}

SetMin(S) == CHOOSE x \in S : \A y \in S : x <= y
SetMax(S) == CHOOSE x \in S : \A y \in S : x >= y

\* s[from:] and s[:to] on 1-based sequences
Drop(s, k) == SubSeq(s, k + 1, Len(s))
Take(s, k) == SubSeq(s, 1, k)

\* str.strip()
Strip(s) ==
    LET keep == {i \in 1..Len(s) : s[i] \notin WS}
    IN  IF keep = {} THEN <<>> ELSE SubSeq(s, SetMin(keep), SetMax(keep))

\* str.split(c) for a one-character separator
RECURSIVE SplitChar(_, _)
SplitChar(s, c) ==
    LET at == {i \in 1..Len(s) : s[i] = c}
    IN  IF at = {} THEN <<s>>
        ELSE <<Take(s, SetMin(at) - 1)>> \o SplitChar(Drop(s, SetMin(at)), c)

\* str.split("\n\n"): left-to-right, non-overlapping occurrences
RECURSIVE SplitBlankLine(_)
SplitBlankLine(s) ==
    LET at == {i \in 1..(Len(s) - 1) : s[i] = NL /\ s[i + 1] = NL}
    IN  IF at = {} THEN <<s>>
        ELSE <<Take(s, SetMin(at) - 1)>> \o SplitBlankLine(Drop(s, SetMin(at) + 1))

\* str.split(): the maximal runs of non-whitespace characters
RECURSIVE SplitWords(_)
SplitWords(s) ==
    LET start == {i \in 1..Len(s) : s[i] \notin WS}
    IN  IF start = {} THEN <<>>
        ELSE LET b == SetMin(start)
                 stop == {i \in b..Len(s) : s[i] \in WS}
                 e == IF stop = {} THEN Len(s) + 1 ELSE SetMin(stop)
             IN  <<SubSeq(s, b, e - 1)>> \o SplitWords(Drop(s, e - 1))

\* sep.join(parts)
RECURSIVE Join(_, _)
Join(parts, sep) ==
    IF parts = <<>> THEN <<>>
    ELSE IF Len(parts) = 1 THEN parts[1]
    ELSE parts[1] \o sep \o Join(Tail(parts), sep)

\* s[-k:] for k >= 0: Python reads -0 as 0, so s[-0:] is the whole string
LastChars(s, k) ==
    IF k = 0 THEN s
    ELSE IF k >= Len(s) THEN s ELSE SubSeq(s, Len(s) - k + 1, Len(s))

\* s.find(" "): 1-based index of the first space, 0 when there is none
FindSpace(s) ==
    LET at == {i \in 1..Len(s) : s[i] = SP}
    IN  IF at = {} THEN 0 ELSE SetMin(at)

(***************************************************************************)
(* chunk_section                                                           *)
(***************************************************************************)
\* mutant of word_loop: the partly filled chunk is dropped when a word
\* does not fit, instead of being appended to raw_chunks
RECURSIVE word_loop_drops_chunk(_, _, _, _)
word_loop_drops_chunk(words, temp, chunks, size) ==
    IF words = <<>> THEN [raw_chunks |-> chunks, current |-> temp]
    ELSE LET word == Head(words) IN
         IF Len(temp) + Len(word) + 1 <= size
         THEN word_loop_drops_chunk(Tail(words),
                        (IF temp = <<>> THEN <<>> ELSE temp \o <<SP>>) \o word,
                        chunks, size)
         ELSE word_loop_drops_chunk(Tail(words), word, chunks, size)

\* the inner loop over the words of a paragraph longer than max_size
RECURSIVE word_loop(_, _, _, _)
word_loop(words, temp, chunks, size) ==
    IF words = <<>> THEN [raw_chunks |-> chunks, current |-> temp]
    ELSE LET word == Head(words) IN
         IF Len(temp) + Len(word) + 1 <= size
         THEN word_loop(Tail(words),
                        (IF temp = <<>> THEN <<>> ELSE temp \o <<SP>>) \o word,
                        chunks, size)
         ELSE word_loop(Tail(words), word,
                        IF temp # <<>> THEN Append(chunks, temp) ELSE chunks,
                        size)

\* mutant of para_loop: the size test forgets the two separator characters
RECURSIVE para_loop_no_separator(_, _, _, _)
para_loop_no_separator(paragraphs, current, chunks, size) ==
    IF paragraphs = <<>>
    THEN IF current # <<>> THEN Append(chunks, current) ELSE chunks
    ELSE LET para == Strip(Head(paragraphs))
             rest == Tail(paragraphs)
         IN  IF para = <<>> THEN para_loop_no_separator(rest, current, chunks, size)
             ELSE IF Len(current) + Len(para) <= size
             THEN para_loop_no_separator(rest,
                            (IF current = <<>> THEN <<>> ELSE current \o <<NL, NL>>) \o para,
                            chunks, size)
             ELSE LET flushed == IF current # <<>> THEN Append(chunks, current)
                                 ELSE chunks
                  IN  IF Len(para) > size
                      THEN LET w == word_loop(SplitWords(para), <<>>, flushed, size)
                           IN  para_loop_no_separator(rest, w.current, w.raw_chunks, size)
                      ELSE para_loop_no_separator(rest, para, flushed, size)

\* the loop over the paragraphs, and the flush that follows it
RECURSIVE para_loop(_, _, _, _)
para_loop(paragraphs, current, chunks, size) ==
    IF paragraphs = <<>>
    THEN IF current # <<>> THEN Append(chunks, current) ELSE chunks
    ELSE LET para == Strip(Head(paragraphs))
             rest == Tail(paragraphs)
         IN  IF para = <<>> THEN para_loop(rest, current, chunks, size)
             ELSE IF Len(current) + Len(para) + 2 <= size
             THEN para_loop(rest,
                            (IF current = <<>> THEN <<>> ELSE current \o <<NL, NL>>) \o para,
                            chunks, size)
             ELSE LET flushed == IF current # <<>> THEN Append(chunks, current)
                                 ELSE chunks
                  IN  IF Len(para) > size
                      THEN LET w == word_loop(SplitWords(para), <<>>, flushed, size)
                           IN  para_loop(rest, w.current, w.raw_chunks, size)
                      ELSE para_loop(rest, para, flushed, size)

\* raw_chunks as chunk_section holds it before the overlap pass
raw_chunks_of(body, size) ==
    IF Strip(body) = <<>> THEN <<>>
    ELSE para_loop(SplitBlankLine(body), <<>>, <<>>, size)

\* the tail of the previous raw chunk that is prepended to a later chunk
overlap_tail(prev_text, ov) ==
    LET tail == LastChars(prev_text, ov)
        first_space == FindSpace(tail)
    IN  IF first_space # 0 THEN Drop(tail, first_space) ELSE tail

Ellipsis == <<"[", ".", ".", ".", "]", SP>>

\* the overlap pass: heading before the first chunk, "[...] tail" before the others
apply_overlap(heading, chunks, ov) ==
    [i \in 1..Len(chunks) |->
        IF i = 1
        THEN (IF heading # <<>> THEN heading \o <<NL, NL>> ELSE <<>>) \o chunks[1]
        ELSE Ellipsis \o overlap_tail(chunks[i - 1], ov) \o <<NL, NL>> \o chunks[i]]

chunk_section(sec, size, ov) == apply_overlap(sec.heading, raw_chunks_of(sec.body, size), ov)

(***************************************************************************)
(* Specification of chunk_section as a pure function: Init draws the       *)
(* section, max_size and overlap; ChunkSection runs the function.          *)
(***************************************************************************)
ChunkAlphabet == {"a", SP, NL}

RECURSIVE SeqsUpTo(_, _)
SeqsUpTo(S, n) ==
    IF n = 0 THEN {<<>>}
    ELSE LET shorter == SeqsUpTo(S, n - 1)
         IN  shorter \cup {Append(s, c) : s \in {t \in shorter : Len(t) = n - 1}, c \in S}

Headings == {<<>>, <<"#", SP, "a">>}

NoCall == [file |-> "none", force |-> FALSE]
NoRun == [file |-> "none", force |-> FALSE, was_indexed |-> FALSE, batch_start |-> 0,
          indexed |-> 0, outcomes |-> <<>>, added |-> {}, deleted |-> 0, returned |-> 0,
          after_partial |-> "none"]

\* the variables of the indexer, in a specification that does not run it
IndexUnused ==
    /\ collection = {}
    /\ file_chunks = <<>>
    /\ ipc = "none"
    /\ call = NoRun
    /\ prev_call = NoCall
    /\ partial = <<>>

\* Python None, where it stands for a missing bool (Optional[bool])
None == "None"
\* an Optional argument: Nothing is None, Some(v) is the value v
Nothing == <<>>
Some(v) == <<v>>

NoQuestion == [id |-> "", qtype |-> ""]
NoResult == [question |-> NoQuestion, llm_answer |-> <<>>, llm_extracted |-> <<>>,
             correct_answer |-> <<>>, is_correct |-> None, score |-> 0]
NoSummary == [total |-> 0, correct |-> 0, incorrect |-> 0, ungraded |-> 0,
              accuracy |-> <<0, 1>>]

NoAsk == [question |-> "", grounded |-> TRUE, history_given |-> FALSE, documents |-> "none",
          generation_calls |-> <<>>, yielded |-> <<>>, outcome |-> "none",
          history_before |-> <<>>, history_after |-> <<>>]

JsonUnused ==
    /\ data = <<>>
    /\ quiz_id = Nothing
    /\ parsed = [status |-> "none"]
MultiUnused ==
    /\ quiz_files = <<>>
    /\ qi = 0
    /\ all_summaries = <<>>
ChatUnused ==
    /\ history = <<>>
    /\ max_turns = 0
    /\ added = <<>>
    /\ ask = NoAsk
ReportUnused ==
    /\ report = [status |-> "none"]
ExtUnused == JsonUnused /\ MultiUnused /\ ChatUnused /\ ReportUnused

\* the variables of the quiz code, in a specification that does not run it
QuizUnused ==
    /\ ExtUnused
    /\ questions = <<>>
    /\ answer_key = <<>>
    /\ qsections = Nothing
    /\ limit = Nothing
    /\ shuffle = FALSE
    /\ filtered = <<>>
    /\ pruned_key = <<>>
    /\ question = NoQuestion
    /\ llm_answer = <<>>
    /\ extracted = <<>>
    /\ result = NoResult
    /\ configs = <<>>
    /\ ci = 0
    /\ qidx = 0
    /\ graded = <<>>
    /\ bench_results = <<>>
    /\ runs = <<>>
    /\ events = <<>>
    /\ tables = <<>>
    /\ logs = <<>>
    /\ service = <<>>
    /\ summary = NoSummary
    /\ summaries = <<>>
    /\ agg = <<>>
    /\ qpc = "none"

ChunkInit ==
    /\ IndexUnused
    /\ QuizUnused
    /\ section \in [heading : Headings, body : SeqsUpTo(ChunkAlphabet, MaxBodyLen)]
    /\ max_size \in 1..MaxSize
    /\ overlap \in 0..MaxOverlap
    /\ raw = <<>>
    /\ overlapped = <<>>
    /\ cpc = "call"
    /\ content = <<>>
    /\ heading_positions = <<>>
    /\ sections = <<>>
    /\ results = <<>>
    /\ ppc = "none"

ChunkSection ==
    /\ cpc = "call"
    /\ raw' = raw_chunks_of(section.body, max_size)
    /\ overlapped' = chunk_section(section, max_size, overlap)
    /\ cpc' = "done"
    /\ UNCHANGED <<section, max_size, overlap>>
    /\ UNCHANGED <<parseVars, indexVars, quizVars>>

ChunkNext == ChunkSection

SpecChunk == ChunkInit /\ [][ChunkNext]_vars

(***************************************************************************)
(* parse_markdown_sections                                                 *)
(***************************************************************************)
HASH == "#"
\* the backquote character of a code fence (written as a name: the
\* character itself cannot appear in a string of this module)
TICK == "backquote"
Introduction == <<"I", "n", "t", "r", "o", "d", "u", "c", "t", "i", "o", "n">>
NoMatch == [level |-> 0, text |-> <<>>]

\* line.strip().startswith(fence), the fence being three backquotes
starts_fence(line) ==
    LET t == Strip(line)
    IN  Len(t) >= 3 /\ t[1] = TICK /\ t[2] = TICK /\ t[3] = TICK

\* the number of "#" characters the line starts with
LeadingHashes(line) ==
    LET other == {i \in 1..Len(line) : line[i] # HASH}
    IN  IF other = {} THEN Len(line) ELSE SetMin(other) - 1

\* heading_pattern.match(line) for ^(#{1,6})\s+(.+)$ : the level is len(group 1)
\* and the text is group 2 stripped; \s+ gives one character back to .+ when
\* nothing but whitespace follows the hashes
heading_pattern_match(line) ==
    LET h == LeadingHashes(line) IN
    IF h >= 1 /\ h <= 6 /\ Len(line) >= h + 2 /\ line[h + 1] \in WS
    THEN LET after == {i \in (h + 1)..Len(line) : line[i] \notin WS}
             group2 == IF after = {} THEN <<line[Len(line)]>>
                       ELSE Drop(line, SetMin(after) - 1)
         IN  [level |-> h, text |-> Strip(group2)]
    ELSE NoMatch

\* mutant of first_pass: the fenced-code-block state is not consulted
RECURSIVE first_pass_ignores_fences(_, _, _, _)
first_pass_ignores_fences(lines, i, in_code_block, found) ==
    IF i > Len(lines) THEN found
    ELSE IF starts_fence(lines[i])
    THEN first_pass_ignores_fences(lines, i + 1, ~in_code_block, found)
    ELSE LET m == heading_pattern_match(lines[i]) IN
         IF m # NoMatch
         THEN first_pass_ignores_fences(lines, i + 1, in_code_block,
                  Append(found, [line |-> i, level |-> m.level, text |-> m.text]))
         ELSE first_pass_ignores_fences(lines, i + 1, in_code_block, found)

\* first pass: the heading positions (line index from 1, level, text)
RECURSIVE first_pass(_, _, _, _)
first_pass(lines, i, in_code_block, found) ==
    IF i > Len(lines) THEN found
    ELSE IF starts_fence(lines[i]) THEN first_pass(lines, i + 1, ~in_code_block, found)
    ELSE IF in_code_block THEN first_pass(lines, i + 1, in_code_block, found)
    ELSE LET m == heading_pattern_match(lines[i]) IN
         IF m # NoMatch
         THEN first_pass(lines, i + 1, in_code_block,
                  Append(found, [line |-> i, level |-> m.level, text |-> m.text]))
         ELSE first_pass(lines, i + 1, in_code_block, found)

RECURSIVE SortedSeq(_)
SortedSeq(S) == IF S = {} THEN <<>> ELSE <<SetMin(S)>> \o SortedSeq(S \ {SetMin(S)})

\* mutant of update_breadcrumb_stack: deeper levels are not cleared
update_breadcrumb_stack_keeps_deeper(stack, level, text) ==
    [l \in DOMAIN stack \cup {level} |-> IF l = level THEN text ELSE stack[l]]

\* breadcrumb_stack[level] = text, then every deeper level is deleted
update_breadcrumb_stack(stack, level, text) ==
    [l \in {d \in DOMAIN stack \cup {level} : d <= level} |->
        IF l = level THEN text ELSE stack[l]]

\* the breadcrumb list: the values of the stack in ascending level order
breadcrumb_of(stack) ==
    LET levels == SortedSeq(DOMAIN stack)
    IN  [k \in 1..Len(levels) |-> stack[levels[k]]]

RECURSIVE Repeat(_, _)
Repeat(c, n) == IF n = 0 THEN <<>> ELSE <<c>> \o Repeat(c, n - 1)

\* mutant of section_body: the slice stops one line early
section_body_drops_last_line(lines, from, to) ==
    Strip(Join(SubSeq(lines, from, to - 1), <<NL>>))

\* "\n".join(lines[from-1 : to]).strip(), lines numbered from 1
section_body(lines, from, to) == Strip(Join(SubSeq(lines, from, to), <<NL>>))

\* second pass: one section per heading position
RECURSIVE second_pass(_, _, _, _, _)
second_pass(lines, positions, idx, breadcrumb_stack, out) ==
    IF idx > Len(positions) THEN out
    ELSE LET pos == positions[idx]
             next_line == IF idx + 1 <= Len(positions) THEN positions[idx + 1].line
                          ELSE Len(lines) + 1
             stack == update_breadcrumb_stack(breadcrumb_stack, pos.level, pos.text)
             sec == [heading |-> Repeat(HASH, pos.level) \o <<SP>> \o pos.text,
                     heading_text |-> pos.text,
                     heading_level |-> pos.level,
                     body |-> section_body(lines, pos.line + 1, next_line - 1),
                     breadcrumb |-> breadcrumb_of(stack)]
         IN  second_pass(lines, positions, idx + 1, stack, Append(out, sec))

heading_positions_of(text) == first_pass(SplitChar(text, NL), 1, FALSE, <<>>)

parse_markdown_sections(text) ==
    LET lines == SplitChar(text, NL)
        positions == heading_positions_of(text)
        first_heading_line == IF positions # <<>> THEN positions[1].line
                              ELSE Len(lines) + 1
        preamble == section_body(lines, 1, first_heading_line - 1)
        intro == IF preamble # <<>>
                 THEN <<[heading |-> <<>>,
                         heading_text |-> Introduction,
                         heading_level |-> 0,
                         body |-> preamble,
                         breadcrumb |-> <<Introduction>>]>>
                 ELSE <<>>
    IN  second_pass(lines, positions, 1, <<>>, intro)

(***************************************************************************)
(* chunk_markdown_file                                                     *)
(***************************************************************************)
\* MarkdownSection.breadcrumb_path
breadcrumb_path(sec) == Join(sec.breadcrumb, <<SP, ">", SP>>)

\* mutant of file_loop: chunk_index_in_section keeps counting across sections
RECURSIVE file_loop_global_index(_, _, _, _, _, _, _)
file_loop_global_index(secs, section_idx, filename, file_hash, size, ov, out) ==
    IF section_idx > Len(secs) THEN out
    ELSE LET sec == secs[section_idx]
             chunks == chunk_section(sec, size, ov)
             made == [c \in 1..Len(chunks) |->
                        [text |-> chunks[c],
                         metadata |-> [source |-> filename,
                                       file_hash |-> file_hash,
                                       doc_type |-> "markdown",
                                       heading |-> sec.heading_text,
                                       heading_level |-> sec.heading_level,
                                       breadcrumb |-> breadcrumb_path(sec),
                                       chunk_index_in_section |-> Len(out) + c - 1,
                                       section_index |-> section_idx - 1]]]
         IN  file_loop_global_index(secs, section_idx + 1, filename, file_hash, size, ov,
                                    out \o made)

\* the loop over the sections; indexes are counted from 0 as in the source
RECURSIVE file_loop(_, _, _, _, _, _, _)
file_loop(secs, section_idx, filename, file_hash, size, ov, out) ==
    IF section_idx > Len(secs) THEN out
    ELSE LET sec == secs[section_idx]
             chunks == chunk_section(sec, size, ov)
             made == [c \in 1..Len(chunks) |->
                        [text |-> chunks[c],
                         metadata |-> [source |-> filename,
                                       file_hash |-> file_hash,
                                       doc_type |-> "markdown",
                                       heading |-> sec.heading_text,
                                       heading_level |-> sec.heading_level,
                                       breadcrumb |-> breadcrumb_path(sec),
                                       chunk_index_in_section |-> c - 1,
                                       section_index |-> section_idx - 1]]]
         IN  file_loop(secs, section_idx + 1, filename, file_hash, size, ov, out \o made)

chunk_markdown_file(text, filename, file_hash, size, ov) ==
    file_loop(parse_markdown_sections(text), 1, filename, file_hash, size, ov, <<>>)

(***************************************************************************)
(* Specifications of parse_markdown_sections and chunk_markdown_file as    *)
(* pure functions.  A document is drawn as a list of lines and given to    *)
(* the function as one text, joined by newlines.                           *)
(***************************************************************************)
LineKinds ==
    { <<>>,                                   \* blank line
      <<SP, "b">>,                            \* indented text
      <<HASH, SP, "a">>,                      \* level-1 headings
      <<HASH, SP, "b">>,
      <<HASH, HASH, SP, "a">>,                \* level-2 heading
      <<HASH, HASH, HASH, SP, "b">>,          \* level-3 heading
      <<TICK, TICK, TICK>>,                   \* code fence
      <<HASH, "a">>,                          \* no whitespace after the hash
      <<HASH, SP, SP>> }                      \* hashes and whitespace only

Documents(n) == {Join(ls, <<NL>>) : ls \in SeqsUpTo(LineKinds, n)}

ParseInit ==
    /\ IndexUnused
    /\ QuizUnused
    /\ content \in Documents(MaxLines)
    /\ heading_positions = <<>>
    /\ sections = <<>>
    /\ results = <<>>
    /\ ppc = "call"
    /\ section = [heading |-> <<>>, body |-> <<>>]
    /\ max_size = 1
    /\ overlap = 0
    /\ raw = <<>>
    /\ overlapped = <<>>
    /\ cpc = "none"

ParseMarkdownSections ==
    /\ ppc = "call"
    /\ heading_positions' = heading_positions_of(content)
    /\ sections' = parse_markdown_sections(content)
    /\ ppc' = "done"
    /\ UNCHANGED <<content, results>>
    /\ UNCHANGED <<chunkVars, indexVars, quizVars>>

ParseNext == ParseMarkdownSections

SpecParse == ParseInit /\ [][ParseNext]_vars

FileOverlaps == {0, MaxOverlap}

FileInit ==
    /\ IndexUnused
    /\ QuizUnused
    /\ content \in Documents(MaxFileLines)
    /\ max_size \in 1..MaxFileSize
    /\ overlap \in FileOverlaps
    /\ heading_positions = <<>>
    /\ sections = <<>>
    /\ results = <<>>
    /\ ppc = "call"
    /\ section = [heading |-> <<>>, body |-> <<>>]
    /\ raw = <<>>
    /\ overlapped = <<>>
    /\ cpc = "none"

ChunkMarkdownFile ==
    /\ ppc = "call"
    /\ heading_positions' = heading_positions_of(content)
    /\ sections' = parse_markdown_sections(content)
    /\ results' = chunk_markdown_file(content, "doc.md", "hash", max_size, overlap)
    /\ ppc' = "done"
    /\ UNCHANGED <<content, max_size, overlap, section, raw, overlapped, cpc>>
    /\ UNCHANGED <<indexVars, quizVars>>

FileNext == ChunkMarkdownFile

SpecFile == FileInit /\ [][FileNext]_vars

(***************************************************************************)
(* The document indexer: DocumentProcessor.ingest_markdown and the vector  *)
(* store collection.  ingest_pdf runs the same steps on the text converted *)
(* from the PDF.  A record of the collection is [id, document, file_hash]: *)
(* the id is the pair (hash, index) that the source formats as             *)
(* "hash_index", the document is the chunk, named by its position in the   *)
(* list chunk_markdown_file returned, and file_hash is the metadata field  *)
(* the where-filters read.  The calls of the store itself (get, delete,    *)
(* add) answer; the embedding service may fail on any batch.               *)
(***************************************************************************)
EMBEDDING_BATCH_SIZE == 50

Files == {"a.md", "b.md"}

\* the chunk counts of a.md: none, one, one full batch, and MaxBatches full batches
\* followed by a batch of one chunk; b.md, the other file of the store, has
\* one chunk
ChunkCounts == {0, 1, EMBEDDING_BATCH_SIZE, MaxBatches * EMBEDDING_BATCH_SIZE + 1}
FileChunks == {fc \in [Files -> ChunkCounts] : fc["b.md"] = 1}

\* get_file_hash: the digest of the content; files of the model differ in content
get_file_hash(md_path) == <<"md5", md_path>>

\* mutant of is_already_indexed: the lookup is never made
is_already_indexed_never(store, file_hash) == FALSE

\* mutant of is_already_indexed: indexed means every chunk of the file is held
is_already_indexed_when_complete(store, file_hash) ==
    Cardinality({r \in store : r.file_hash = file_hash}) >= file_chunks[file_hash[2]]

\* collection.get(where file_hash, limit 1) returned an id
is_already_indexed(store, file_hash) == \E r \in store : r.file_hash = file_hash

\* mutant of delete_existing_chunks: nothing is deleted
delete_existing_chunks_keeps_all(store, file_hash) == store

\* collection.delete(where file_hash)
delete_existing_chunks(store, file_hash) == {r \in store : r.file_hash # file_hash}

\* collection.add: a record whose id the collection already holds is left as it is
collection_add(store, records) ==
    LET held == {q.id : q \in store}
    IN  store \cup {r \in records : r.id \notin held}

\* all_ids and all_chunks of a file of n chunks, indexes counted from 0
all_ids(file_hash, n) == [i \in 1..n |-> <<file_hash, i - 1>>]
all_chunks(n) == [i \in 1..n |-> i - 1]

Min2(a, b) == IF a <= b THEN a ELSE b

\* all_ids[batch_start:batch_end]
batch_ids(file_hash, n, batch_start) ==
    SubSeq(all_ids(file_hash, n), batch_start + 1,
           Min2(batch_start + EMBEDDING_BATCH_SIZE, n))

\* all_chunks[batch_start:batch_end]
batch_texts(n, batch_start) ==
    SubSeq(all_chunks(n), batch_start + 1, Min2(batch_start + EMBEDDING_BATCH_SIZE, n))

\* mutant of after_embedding_error: the loop is left at the first failed batch
after_embedding_error_stops(next_start, n) == "returned"

\* except Exception: print, continue -- the loop goes on with the next batch
after_embedding_error(next_start, n) ==
    IF next_start >= n THEN "returned" ELSE "embedding"

\* the note kept per file, as a call returns with these batch outcomes: the
\* file is partly indexed when a batch was stored and another was skipped
partly_indexed(notes, file, outcomes) ==
    IF (\E i \in 1..Len(outcomes) : outcomes[i]) /\ (\E i \in 1..Len(outcomes) : ~outcomes[i])
    THEN [notes EXCEPT ![file] = "partial"] ELSE notes

IndexInit ==
    /\ QuizUnused
    /\ collection = {}
    /\ file_chunks \in FileChunks
    /\ ipc = "idle"
    /\ call = NoRun
    /\ prev_call = NoCall
    /\ partial = [f \in Files |-> "none"]
    /\ section = [heading |-> <<>>, body |-> <<>>]
    /\ max_size = 1
    /\ overlap = 0
    /\ raw = <<>>
    /\ overlapped = <<>>
    /\ cpc = "none"
    /\ content = <<>>
    /\ heading_positions = <<>>
    /\ sections = <<>>
    /\ results = <<>>
    /\ ppc = "none"

\* ingest_markdown up to the batch loop: hash, skip when already indexed,
\* delete when forced, chunk the file, return 0 when it has no chunk
IngestMarkdown(md_path, force) ==
    /\ ipc \in {"idle", "returned"}
    /\ LET file_hash == get_file_hash(md_path)
           run == [NoRun EXCEPT !.file = md_path, !.force = force,
                      !.was_indexed = \E r \in collection : r.id[1] = file_hash,
                      !.after_partial = partial[md_path]]
       IN  IF ~force /\ is_already_indexed(collection, file_hash)
           THEN /\ collection' = collection
                /\ call' = run
                /\ ipc' = "returned"
           ELSE LET kept == IF force THEN delete_existing_chunks(collection, file_hash)
                            ELSE collection
                IN  /\ collection' = kept
                    /\ call' = [run EXCEPT !.deleted = Cardinality(collection \ kept)]
                    /\ ipc' = IF file_chunks[md_path] = 0 THEN "returned"
                              ELSE "embedding"
    /\ prev_call' = IF ipc = "idle" THEN NoCall ELSE [file |-> call.file, force |-> call.force]
    /\ partial' = IF force /\ partial[md_path] = "partial"
                  THEN [partial EXCEPT ![md_path] = "forced"] ELSE partial
    /\ UNCHANGED <<file_chunks, chunkVars, parseVars, quizVars>>

\* one round of the batch loop whose embedding succeeds: the batch is added
EmbedBatchStored ==
    /\ ipc = "embedding"
    /\ LET file_hash == get_file_hash(call.file)
           n == file_chunks[call.file]
           ids == batch_ids(file_hash, n, call.batch_start)
           texts == batch_texts(n, call.batch_start)
           records == {[id |-> ids[j], document |-> texts[j], file_hash |-> file_hash] :
                          j \in 1..Len(ids)}
           stored == collection_add(collection, records)
           next_start == call.batch_start + EMBEDDING_BATCH_SIZE
           indexed == call.indexed + Len(ids)
           done == next_start >= n
       IN  /\ collection' = stored
           /\ call' = [call EXCEPT !.batch_start = next_start,
                                   !.indexed = indexed,
                                   !.outcomes = Append(@, TRUE),
                                   !.added = @ \cup (stored \ collection),
                                   !.returned = IF done THEN indexed ELSE 0]
           /\ ipc' = IF done THEN "returned" ELSE "embedding"
           /\ partial' = IF done THEN partly_indexed(partial, call.file, Append(call.outcomes, TRUE))
                         ELSE partial
    /\ UNCHANGED <<file_chunks, prev_call, chunkVars, parseVars, quizVars>>

\* one round of the batch loop whose embedding raises: the batch is skipped
EmbedBatchFailed ==
    /\ ipc = "embedding"
    /\ LET n == file_chunks[call.file]
           next_start == call.batch_start + EMBEDDING_BATCH_SIZE
           then == after_embedding_error(next_start, n)
       IN  /\ call' = [call EXCEPT !.batch_start = next_start,
                                   !.outcomes = Append(@, FALSE),
                                   !.returned = IF then = "returned" THEN call.indexed
                                                ELSE 0]
           /\ ipc' = then
           /\ partial' = IF then = "returned"
                         THEN partly_indexed(partial, call.file, Append(call.outcomes, FALSE))
                         ELSE partial
    /\ UNCHANGED <<collection, file_chunks, prev_call, chunkVars, parseVars, quizVars>>

Next ==
    \/ \E md_path \in Files, force \in BOOLEAN : IngestMarkdown(md_path, force)
    \/ EmbedBatchStored
    \/ EmbedBatchFailed

Spec == IndexInit /\ [][Next]_vars

(***************************************************************************)
(* Claims about the document indexer (checked under Spec).                 *)
(***************************************************************************)
\* the call that just returned is the second of two calls in a row on the
\* same file, both with force=False
SecondUnforcedCall ==
    /\ ipc = "returned"
    /\ prev_call.file = call.file
    /\ ~prev_call.force
    /\ ~call.force

HashRecords == {r \in collection : r.file_hash = get_file_hash(call.file)}
\* the positions of the chunks whose batch was embedded in the current call
StoredPositions ==
    {k \in 0..(file_chunks[call.file] - 1) :
        /\ (k \div EMBEDDING_BATCH_SIZE) + 1 <= Len(call.outcomes)
        /\ call.outcomes[(k \div EMBEDDING_BATCH_SIZE) + 1]}
BatchCount(n) == (n + EMBEDDING_BATCH_SIZE - 1) \div EMBEDDING_BATCH_SIZE

C3_FailedBatchIsSkipped ==
    LET n == file_chunks[call.file] IN
    /\ ipc = "embedding" =>
        /\ call.batch_start = EMBEDDING_BATCH_SIZE * Len(call.outcomes)
        /\ call.batch_start < n
    /\ ipc \in {"embedding", "returned"} =>
        /\ call.added \subseteq collection
        /\ \A r \in call.added : r.id = <<get_file_hash(call.file), r.document>>
        /\ {r.document : r \in call.added} = StoredPositions
    /\ (ipc = "returned" /\ (call.force \/ ~call.was_indexed)) =>
        /\ Len(call.outcomes) = BatchCount(n)
        /\ call.returned = Cardinality(StoredPositions)

\* C3 witness: a call returned after its second batch failed and its first
\* and third batches were stored.
C3_Witness ==
    /\ ipc = "returned"
    /\ call.outcomes = <<TRUE, FALSE, TRUE>>
    /\ call.returned = EMBEDDING_BATCH_SIZE + 1

(***************************************************************************)
(* Claims about chunk_section (checked under SpecChunk).                   *)
(***************************************************************************)
IsSingleWord(s) == s # <<>> /\ \A j \in 1..Len(s) : s[j] \notin WS

\* C4 (as stated): every returned chunk string has length at most max_size,
\* except a chunk that consists of a single word longer than max_size.
C4_ReturnedChunkWithinMaxSize ==
    cpc = "done" =>
        \A i \in 1..Len(overlapped) :
            \/ Len(overlapped[i]) <= max_size
            \/ IsSingleWord(overlapped[i]) /\ Len(overlapped[i]) > max_size

\* C4 (amended): every raw chunk, before the heading or overlap prefix is
\* added, has length at most max_size, except a raw chunk that consists of a
\* single word longer than max_size; the returned chunk is the raw chunk
\* behind its prefix, so it is longer than the raw chunk by that prefix.
C4_RawChunkWithinMaxSize ==
    cpc = "done" =>
        /\ Len(overlapped) = Len(raw)
        /\ \A i \in 1..Len(raw) :
            /\ \/ Len(raw[i]) <= max_size
               \/ IsSingleWord(raw[i]) /\ Len(raw[i]) > max_size
            /\ Len(overlapped[i]) >= Len(raw[i])
            /\ Drop(overlapped[i], Len(overlapped[i]) - Len(raw[i])) = raw[i]

\* C4 witness: a raw chunk of several words fills max_size exactly and the
\* returned chunk, with its prefix, is longer than max_size.
C4_Witness ==
    /\ cpc = "done"
    /\ \E i \in 1..Len(raw) :
        /\ Len(raw[i]) = max_size
        /\ ~IsSingleWord(raw[i])
        /\ Len(overlapped[i]) > max_size

\* C5 (as stated): for i > 0 the returned chunk i is "[...] " + tail + blank
\* line + r[i], where tail is a suffix of r[i-1] of at most `overlap`
\* characters that starts just after a whitespace character of r[i-1], or is
\* the whole window (the last `overlap` characters) when the window holds no
\* whitespace.
C5_OverlapTailFromPrevious ==
    cpc = "done" =>
        \A i \in 2..Len(raw) :
            LET prev == raw[i - 1]
                window == SubSeq(prev, Len(prev) - overlap + 1, Len(prev))
            IN  \E k \in 0..Len(prev) :
                    LET tail == Drop(prev, k) IN
                    /\ overlapped[i] = Ellipsis \o tail \o <<NL, NL>> \o raw[i]
                    /\ Len(tail) <= overlap
                    /\ \/ k >= 1 /\ prev[k] \in WS
                       \/ /\ tail = (IF overlap >= Len(prev) THEN prev ELSE window)
                          /\ \A j \in 1..Len(tail) : tail[j] \notin WS

\* C6: read in order, the raw chunks hold exactly the whitespace-delimited
\* words of the body: none dropped, duplicated, reordered or split.
C6_RawChunksKeepWords ==
    cpc = "done" =>
        SplitWords(Join(raw, <<SP>>)) = SplitWords(section.body)

\* C6 witness: a single paragraph longer than max_size was split by words
\* into several raw chunks.
C6_Witness ==
    /\ cpc = "done"
    /\ Len(SplitBlankLine(section.body)) = 1
    /\ Len(section.body) > max_size
    /\ Len(raw) >= 2
    /\ \E i \in 1..Len(raw) : ~IsSingleWord(raw[i])

(***************************************************************************)
(* Claims about parse_markdown_sections (checked under SpecParse) and      *)
(* chunk_markdown_file (checked under SpecFile).  The headings of a        *)
(* document are stated here from the text alone, without the parser.       *)
(***************************************************************************)
DocLines == SplitChar(content, NL)

\* 1 to 6 hashes, whitespace, at least one more character
HeadingShaped(line) ==
    \E h \in 1..6 :
        /\ Len(line) >= h + 2
        /\ \A i \in 1..h : line[i] = HASH
        /\ line[h + 1] \in WS

ShapeLevel(line) == CHOOSE h \in 1..6 : (\A i \in 1..h : line[i] = HASH) /\ line[h + 1] \in WS
ShapeText(line) == Strip(Drop(line, ShapeLevel(line)))

\* line i lies in a fenced block: an odd number of fence lines precede it
InFence(lines, i) == Cardinality({j \in 1..(i - 1) : starts_fence(lines[j])}) % 2 = 1

\* the boundary headings: heading-shaped lines outside fenced blocks
BoundaryLines(lines) ==
    {i \in 1..Len(lines) : HeadingShaped(lines[i]) /\ ~InFence(lines, i)}

\* the text before the first boundary heading
PreambleText(lines, bounds) ==
    Join(SubSeq(lines, 1, (IF bounds = <<>> THEN Len(lines) + 1 ELSE bounds[1]) - 1), <<NL>>)
NonBlank(text) == \E i \in 1..Len(text) : text[i] \notin WS
\* the lines strictly between boundary k and the next boundary (or the end)
RangeText(lines, bounds, k) ==
    Join(SubSeq(lines, bounds[k] + 1,
                (IF k < Len(bounds) THEN bounds[k + 1] ELSE Len(lines) + 1) - 1),
         <<NL>>)
Bodies == [k \in 1..Len(sections) |-> sections[k].body]
NonHeadingLines(lines) ==
    LET keep == SortedSeq((1..Len(lines)) \ BoundaryLines(lines))
    IN  [k \in 1..Len(keep) |-> lines[keep[k]]]

C8_Breadcrumb ==
    ppc = "done" =>
        \A i \in 1..Len(sections) :
            sections[i].heading_level >= 1 =>
                LET L == sections[i].heading_level
                    at(l) == {j \in 1..(i - 1) : sections[j].heading_level = l}
                    live(l) ==
                        /\ at(l) # {}
                        /\ \A j \in (SetMax(at(l)) + 1)..(i - 1) :
                               sections[j].heading_level >= l
                    levels == SortedSeq({l \in 1..(L - 1) : live(l)})
                IN  sections[i].breadcrumb =
                        [k \in 1..Len(levels) |->
                            sections[SetMax(at(levels[k]))].heading_text]
                        \o <<sections[i].heading_text>>

\* C8 witness: a heading that follows a deeper heading and keeps an ancestor,
\* and a sibling heading that replaced the entry of its level.
C8_Witness ==
    /\ ppc = "done"
    /\ \E i \in 1..Len(sections) :
        /\ Len(sections[i].breadcrumb) = 2
        /\ \E j \in 1..(i - 1) : sections[j].heading_level > sections[i].heading_level
    /\ \E i \in 2..Len(sections) :
        /\ sections[i].heading_level = sections[i - 1].heading_level
        /\ sections[i].heading_text # sections[i - 1].heading_text
        /\ Len(sections[i].breadcrumb) = 1

\* C9 (as stated): joining the bodies in order with the line separator
\* reconstructs the document minus the heading lines used as boundaries.
C9_BodiesReconstructDocument ==
    ppc = "done" => Join(Bodies, <<NL>>) = Join(NonHeadingLines(DocLines), <<NL>>)

\* C9 (amended): the bodies cover pairwise disjoint line ranges (the lines
\* before the first boundary heading, and the lines strictly between one
\* boundary heading and the next), each body is the text of its range with
\* leading and trailing whitespace removed, and a blank range before the
\* first heading yields no section; so the joined bodies hold the words of
\* the document minus its boundary heading lines, in order.
C9_BodiesAreStrippedRanges ==
    ppc = "done" =>
        LET lines == DocLines
            bounds == SortedSeq(BoundaryLines(lines))
            preamble == PreambleText(lines, bounds)
            intro == IF NonBlank(preamble) THEN 1 ELSE 0
        IN  /\ Len(sections) = intro + Len(bounds)
            /\ intro = 1 => sections[1].body = Strip(preamble)
            /\ \A k \in 1..Len(bounds) :
                   sections[intro + k].body = Strip(RangeText(lines, bounds, k))
            /\ SplitWords(Join(Bodies, <<NL>>)) =
                   SplitWords(Join(NonHeadingLines(lines), <<NL>>))

\* C9 witness: a heading section whose range starts or ends with whitespace
\* that the body does not keep, next to another section with a body.
C9_Witness ==
    /\ ppc = "done"
    /\ LET lines == DocLines
           bounds == SortedSeq(BoundaryLines(lines))
       IN  \E k \in 1..Len(bounds) :
               /\ Len(sections) >= k
               /\ sections[Len(sections) - Len(bounds) + k].body # <<>>
               /\ sections[Len(sections) - Len(bounds) + k].body # RangeText(lines, bounds, k)
    /\ Cardinality({k \in 1..Len(sections) : sections[k].body # <<>>}) >= 2

\* C10: when max_size is at least the length of every section body,
\* chunk_markdown_file yields one chunk for each section with a non-blank body
\* and none for a section with an empty or whitespace-only body, in section
\* order, each with the section_index of its section and
\* chunk_index_in_section 0.
C10_OneChunkPerSection ==
    (ppc = "done" /\ \A i \in 1..Len(sections) : Len(sections[i].body) <= max_size) =>
        LET full == SortedSeq({i \in 1..Len(sections) : Strip(sections[i].body) # <<>>})
        IN  /\ Len(results) = Len(full)
            /\ \A k \in 1..Len(results) :
                /\ results[k].metadata.section_index = full[k] - 1
                /\ results[k].metadata.chunk_index_in_section = 0
                /\ results[k].metadata.heading = sections[full[k]].heading_text

\* C10 witness: max_size equals the length of a body, and an empty section
\* precedes a section that gets a chunk.
C10_Witness ==
    /\ ppc = "done"
    /\ \A i \in 1..Len(sections) : Len(sections[i].body) <= max_size
    /\ \E i \in 1..Len(sections) : sections[i].body = <<>>
    /\ \E i \in 1..Len(sections) : Len(sections[i].body) = max_size
    /\ Len(results) >= 1
    /\ results[1].metadata.section_index >= 1

(***************************************************************************)
(* backend/quiz_processor.py: the question filter.                         *)
(***************************************************************************)
MaxQuestions == 3    \* most questions of a quiz

QuestionIds == {"q1", "q2"}
QTypes == {"tf", "mc", "sa"}
\* a Question, reduced to the fields the quiz code branches on
Questions == [id : QuestionIds, qtype : QTypes]

\* [q for q in filtered if q.qtype in sections]
RECURSIVE keep_qtypes(_, _)
keep_qtypes(qs, types) ==
    IF qs = <<>> THEN <<>>
    ELSE (IF Head(qs).qtype \in types THEN <<Head(qs)>> ELSE <<>>)
             \o keep_qtypes(Tail(qs), types)

\* "if sections:" is false for None and for the empty set
filter_by_sections(qs, secs) ==
    IF secs # Nothing /\ secs[1] # {} THEN keep_qtypes(qs, secs[1]) ELSE qs

\* s[:k] for any integer k: a negative k counts from the end
SliceTo(s, k) ==
    IF k >= 0 THEN Take(s, IF k < Len(s) THEN k ELSE Len(s))
    ELSE Take(s, IF Len(s) + k > 0 THEN Len(s) + k ELSE 0)

\* "if limit is not None and limit < len(filtered): filtered = filtered[:limit]"
apply_limit(qs, lim) ==
    IF lim # Nothing /\ lim[1] < Len(qs) THEN SliceTo(qs, lim[1]) ELSE qs

\* mutant of prune_answer_key: the key is returned as it came
prune_answer_key_keeps_all(key, qs) == key

\* {k: v for k, v in answer_key.items() if k in filtered_ids}
prune_answer_key(key, qs) ==
    LET filtered_ids == {qs[i].id : i \in 1..Len(qs)}
    IN  [k \in {x \in DOMAIN key : x \in filtered_ids} |-> key[k]]

\* the orders random.shuffle can leave a list of n elements in
shuffle_orders(n, shuffled) ==
    IF shuffled THEN Permutations(1..n) ELSE {[i \in 1..n |-> i]}

\* filter_questions, given the order the shuffle produced
filter_questions(qs, key, secs, lim, order) ==
    LET typed == filter_by_sections(qs, secs)
        reordered == [i \in 1..Len(typed) |-> typed[order[i]]]
        out == apply_limit(reordered, lim)
    IN  [questions |-> out, answer_key |-> prune_answer_key(key, out)]

AnswerKeys(ids, answers) ==
    UNION {[S -> [answer : answers]] : S \in SUBSET ids}

SectionSets == {Nothing, Some({}), Some({"tf"}), Some({"tf", "mc"})}
Limits == {Nothing} \cup {Some(k) : k \in {-1, 0, 1, MaxQuestions - 1}}

\* the variables of the extractor, grader, runner and aggregation, unused
GradeUnused ==
    /\ question = NoQuestion
    /\ llm_answer = <<>>
    /\ extracted = <<>>
    /\ result = NoResult
BenchUnused ==
    /\ configs = <<>>
    /\ ci = 0
    /\ qidx = 0
    /\ graded = <<>>
    /\ bench_results = <<>>
    /\ runs = <<>>
    /\ events = <<>>
    /\ tables = <<>>
    /\ logs = <<>>
    /\ service = <<>>
AggUnused ==
    /\ summary = NoSummary
    /\ summaries = <<>>
    /\ agg = <<>>
DocsUnused ==
    /\ IndexUnused
    /\ section = [heading |-> <<>>, body |-> <<>>]
    /\ max_size = 1
    /\ overlap = 0
    /\ raw = <<>>
    /\ overlapped = <<>>
    /\ cpc = "none"
    /\ content = <<>>
    /\ heading_positions = <<>>
    /\ sections = <<>>
    /\ results = <<>>
    /\ ppc = "none"

FilterInit ==
    /\ DocsUnused
    /\ ExtUnused
    /\ GradeUnused
    /\ BenchUnused
    /\ AggUnused
    /\ questions \in SeqsUpTo(Questions, MaxQuestions)
    /\ answer_key \in AnswerKeys(QuestionIds, {<<"T">>})
    /\ qsections \in SectionSets
    /\ limit \in Limits
    /\ shuffle \in BOOLEAN
    /\ filtered = <<>>
    /\ pruned_key = <<>>
    /\ qpc = "call"

FilterQuestions ==
    /\ qpc = "call"
    /\ \E order \in shuffle_orders(Len(filter_by_sections(questions, qsections)), shuffle) :
           LET out == filter_questions(questions, answer_key, qsections, limit, order)
           IN  /\ filtered' = out.questions
               /\ pruned_key' = out.answer_key
    /\ qpc' = "done"
    /\ UNCHANGED <<questions, answer_key, qsections, limit, shuffle>>
    /\ UNCHANGED <<extVars, chunkVars, parseVars, indexVars, gradeVars, benchVars, aggVars>>

FilterNext == FilterQuestions

SpecFilter == FilterInit /\ [][FilterNext]_vars

\* C11: the ids of the returned answer key are exactly the ids of the input
\* key that are the id of a returned question, each with the entry the input
\* key had; no entry is left whose id is not the id of a returned question.
C11_KeyPrunedToReturnedQuestions ==
    qpc = "done" =>
        LET returned_ids == {filtered[i].id : i \in 1..Len(filtered)}
        IN  /\ DOMAIN pruned_key = DOMAIN answer_key \cap returned_ids
            /\ \A k \in DOMAIN pruned_key : pruned_key[k] = answer_key[k]
            /\ \A i \in 1..Len(questions) :
                   questions[i].id \notin returned_ids =>
                       questions[i].id \notin DOMAIN pruned_key

\* a question with a key entry was filtered out by its type, another was cut
\* by the limit after a shuffle, and the key lost an entry
C11_Witness ==
    /\ qpc = "done"
    /\ shuffle
    /\ qsections = Some({"tf", "mc"})
    /\ limit = Some(1)
    /\ Len(questions) = 3
    /\ Len(filtered) = 1
    /\ DOMAIN answer_key = QuestionIds
    /\ DOMAIN pruned_key # DOMAIN answer_key
    /\ \E i \in 1..3 : questions[i].qtype = "sa"
    /\ filtered[1] # questions[1]

\* the questions of qs whose qtype is in the set, in their order
OfTypes(qs, types) == SelectSeq(qs, LAMBDA q : q.qtype \in types)

\* C12: with shuffle=false, a type set and a limit >= 0, the result is the
\* first min(limit, n) of the n input questions whose qtype is in the type
\* set, in their original order.
C12_FirstLimitOfTypeSet ==
    (qpc = "done" /\ ~shuffle /\ qsections # Nothing /\ limit # Nothing /\ limit[1] >= 0) =>
        LET matching == OfTypes(questions, qsections[1])
            n == Len(matching)
        IN  filtered = Take(matching, IF limit[1] < n THEN limit[1] ELSE n)

(***************************************************************************)
(* backend/quiz_processor.py: the answer extractor.  The regular           *)
(* expressions are run as position sets: a pattern read from a set of      *)
(* positions P (the index of the next character) gives the set of          *)
(* positions where a match of it can end.                                  *)
(***************************************************************************)
MaxTokens == 4       \* most tokens of a model response

\* str.lower() and str.upper(), on the letters of the modelled alphabet
LowerOf == [c \in {"T", "F", "C"} |-> IF c = "T" THEN "t" ELSE IF c = "F" THEN "f" ELSE "c"]
UpperOf == [c \in {"t", "f", "a", "b", "c", "d"} |->
               CASE c = "t" -> "T" [] c = "f" -> "F" [] c = "a" -> "A"
                 [] c = "b" -> "B" [] c = "c" -> "C" [] c = "d" -> "D"]
Lower(s) == [i \in 1..Len(s) |-> IF s[i] \in DOMAIN LowerOf THEN LowerOf[s[i]] ELSE s[i]]
Upper(s) == [i \in 1..Len(s) |-> IF s[i] \in DOMAIN UpperOf THEN UpperOf[s[i]] ELSE s[i]]

\* the characters of the modelled alphabet that \w does not accept
NonWordChars == {SP, NL, "*", ":", "(", ")", ".", "[", "]", "#", ">", "-"}
IsWordAt(s, i) == i >= 1 /\ i <= Len(s) /\ s[i] \notin NonWordChars

\* a literal
Lit(s, P, lit) ==
    {p + Len(lit) : p \in {q \in P : /\ q + Len(lit) - 1 <= Len(s)
                                      /\ s[q] = lit[1]
                                      /\ SubSeq(s, q, q + Len(lit) - 1) = lit}}
\* an alternation of literals
AnyLit(s, P, lits) == UNION {Lit(s, P, l) : l \in lits}
\* \s* and \s+
WsEnd(s, p) == SetMin({k \in p..(Len(s) + 1) : k > Len(s) \/ s[k] \notin WS})
Ws0(s, P) == UNION {p..WsEnd(s, p) : p \in P}
Ws1(s, P) == UNION {(p + 1)..WsEnd(s, p) : p \in P}
\* \b
Bnd(s, P) == {p \in P : IsWordAt(s, p - 1) # IsWordAt(s, p)}
\* one character of a class
OneOf(s, P, class) == {p + 1 : p \in {q \in P : q <= Len(s) /\ s[q] \in class}}
\* an optional pattern, given the positions after it
Opt(P, after) == P \cup after

TRUE_ == <<"t", "r", "u", "e">>
FALSE_ == <<"f", "a", "l", "s", "e">>
IS_ == <<"i", "s">>
ANSWER_ == <<"a", "n", "s", "w", "e", "r">>
THE_ == <<"t", "h", "e">>
CORRECT_ == <<"c", "o", "r", "r", "e", "c", "t">>
BOLD_ == <<"*", "*">>
Subjects == {ANSWER_, <<"s", "t", "a", "t", "e", "m", "e", "n", "t">>,
             <<"c", "l", "a", "i", "m">>,
             <<"a", "s", "s", "e", "r", "t", "i", "o", "n">>,
             <<"t", "h", "i", "s">>}
Letters == {"a", "b", "c", "d"}
UNKNOWN == <<"?">>
\* re.search found no match
NoGroup == "no match"

\* re.search: the start positions where a pattern matches, the pattern being
\* given by the positions its matches from one start can end at; only the
\* positions in from (those holding a character the pattern can begin with)
\* are tried
Starts(from, ends(_)) == {i \in from : ends(i) # {}}
Positions(s, chars) == {i \in 1..Len(s) : s[i] \in chars}

\* the group (true|false) of the leftmost match, given the starts of the
\* matches with each word
tf_group(true_starts, false_starts) ==
    IF true_starts = {} /\ false_starts = {} THEN NoGroup
    ELSE IF false_starts = {} THEN "T"
    ELSE IF true_starts = {} THEN "F"
    ELSE IF SetMin(true_starts) <= SetMin(false_starts) THEN "T" ELSE "F"

\* re.sub(r"^[\s*#>\-]+", "", lower)
strip_markup(s) ==
    LET other == {i \in 1..Len(s) : s[i] \notin (WS \cup {"*", "#", ">", "-"})}
    IN  IF other = {} THEN <<>> ELSE Drop(s, SetMin(other) - 1)

StartsWith(s, lit) == Len(s) >= Len(lit) /\ Take(s, Len(lit)) = lit

\* \b(?:answer|statement|claim|assertion|this)\s+is\s+(true|false)\b
subject_is(s, word) ==
    Starts(Positions(s, {"a", "s", "c", "t"}), LAMBDA i :
        Bnd(s, Lit(s, Ws1(s, Lit(s, Ws1(s, AnyLit(s, Bnd(s, {i}), Subjects)), IS_)), word)))

\* \b(true|false)\b
standalone(s, word) == Starts(Positions(s, {word[1]}), LAMBDA i : Bnd(s, Lit(s, Bnd(s, {i}), word)))

\* \*\*(true|false)\*\*
bold_word(s, word) == Starts(Positions(s, {"*"}), LAMBDA i : Lit(s, Lit(s, Lit(s, {i}, BOLD_), word), BOLD_))

\* :\s*(true|false)\b
colon_word(s, word) == Starts(Positions(s, {":"}), LAMBDA i : Bnd(s, Lit(s, Ws0(s, Lit(s, {i}, <<":">>)), word)))

\* \b(?:the\s+)?(?:correct\s+)?answer\s+is\s+ : the positions after it
answer_is(s, i) ==
    LET b == Bnd(s, {i})
        the == Opt(b, Ws1(s, Lit(s, b, THE_)))
        correct == Opt(the, Ws1(s, Lit(s, the, CORRECT_)))
    IN  Ws1(s, Lit(s, Ws1(s, Lit(s, correct, ANSWER_)), IS_))

\* \b(?:the\s+)?(?:correct\s+)?answer\s+is\s+(true|false)\b
answer_is_word(s, word) == Starts(Positions(s, {"t", "c", "a"}), LAMBDA i : Bnd(s, Lit(s, answer_is(s, i), word)))

\* "\n".join(lower.split("\n")[:3])
first_lines_of(s, n) ==
    LET lines == SplitChar(s, NL)
    IN  Join(Take(lines, IF Len(lines) < n THEN Len(lines) ELSE n), <<NL>>)

\* Pass 5 of _extract_tf
tf_by_count(s) ==
    LET true_count == Cardinality(standalone(s, TRUE_))
        false_count == Cardinality(standalone(s, FALSE_))
    IN  IF true_count > 0 /\ false_count = 0 THEN "T"
        ELSE IF false_count > 0 /\ true_count = 0 THEN "F"
        ELSE "?"

\* mutant of tf_first_line: the verdict phrase is looked for after the word
tf_first_line_word_first(first_line) ==
    LET tf_word == tf_group(standalone(first_line, TRUE_), standalone(first_line, FALSE_))
    IN  IF tf_word # NoGroup THEN tf_word
        ELSE tf_group(subject_is(first_line, TRUE_), subject_is(first_line, FALSE_))

\* Pass 2 of _extract_tf: the verdict phrase, then the standalone word
tf_first_line(first_line) ==
    LET verdict_match == tf_group(subject_is(first_line, TRUE_), subject_is(first_line, FALSE_))
    IN  IF verdict_match # NoGroup THEN verdict_match
        ELSE tf_group(standalone(first_line, TRUE_), standalone(first_line, FALSE_))

\* Passes 3 to 5 of _extract_tf
tf_later_passes(lower) ==
    LET first_lines == first_lines_of(lower, 3)
        bold_match == tf_group(bold_word(first_lines, TRUE_), bold_word(first_lines, FALSE_))
        colon_match == tf_group(colon_word(first_lines, TRUE_), colon_word(first_lines, FALSE_))
        verdict_anywhere == tf_group(answer_is_word(lower, TRUE_), answer_is_word(lower, FALSE_))
    IN  IF bold_match # NoGroup THEN bold_match
        ELSE IF colon_match # NoGroup THEN colon_match
        ELSE IF verdict_anywhere # NoGroup THEN verdict_anywhere
        ELSE tf_by_count(lower)

extract_tf(response) ==
    LET lower == Lower(response)
        stripped_start == strip_markup(lower)
        on_first_line == tf_first_line(SplitChar(lower, NL)[1])
    IN  IF StartsWith(stripped_start, TRUE_) THEN <<"T">>
        ELSE IF StartsWith(stripped_start, FALSE_) THEN <<"F">>
        ELSE IF on_first_line # NoGroup THEN <<on_first_line>>
        ELSE <<tf_later_passes(lower)>>

\* the group ([a-d]) of the leftmost match, given the starts of the matches
\* with each letter
mc_group(starts) ==
    LET found == {l \in Letters : starts[l] # {}}
    IN  IF found = {} THEN NoGroup
        ELSE CHOOSE l \in found : \A m \in found : SetMin(starts[l]) <= SetMin(starts[m])

\* \(([a-d])\)
paren_letter(s, l) == Starts(Positions(s, {"("}), LAMBDA i : Lit(s, {i}, <<"(", l, ")">>))

\* \(?([a-d])\)? : the positions after it
maybe_paren_letter(s, P, l) ==
    LET letter == Lit(s, Opt(P, Lit(s, P, <<"(">>)), <<l>>)
    IN  Opt(letter, Lit(s, letter, <<")">>))

\* \b(?:the\s+)?(?:correct\s+)?answer\s+is\s+\(?([a-d])\)?\b
answer_is_letter(s, l) ==
    Starts(Positions(s, {"t", "c", "a"}), LAMBDA i : Bnd(s, maybe_paren_letter(s, answer_is(s, i), l)))

\* \*\*\(?([a-d])\)?\*\*
bold_letter(s, l) ==
    Starts(Positions(s, {"*"}), LAMBDA i : Lit(s, maybe_paren_letter(s, Lit(s, {i}, BOLD_), l), BOLD_))

\* the class [.:)\s]
line_start_class == {".", ":", ")"} \cup WS

\* (?:^|\n)\s*([a-d])[.:)\s]
line_start_letter(s, l) ==
    Starts({1} \cup Positions(s, {NL}), LAMBDA i :
        OneOf(s, Lit(s, Ws0(s, (IF i = 1 THEN {i} ELSE {}) \cup Lit(s, {i}, <<NL>>)), <<l>>),
              line_start_class))

\* Pass 5 of _extract_mc: the first character whose lower case is in "abcd"
first_bare_letter(cleaned) ==
    LET at == {i \in 1..Len(cleaned) : Lower(<<cleaned[i]>>)[1] \in Letters}
    IN  IF at = {} THEN "?" ELSE Lower(<<cleaned[SetMin(at)]>>)[1]

\* mutant of mc_later_passes: the bold pass is left out
mc_later_passes_no_bold(cleaned, lower) ==
    LET line_start == mc_group([l \in Letters |-> line_start_letter(lower, l)])
    IN  IF line_start # NoGroup THEN line_start ELSE first_bare_letter(cleaned)

\* Passes 3 to 5 of _extract_mc
mc_later_passes(cleaned, lower) ==
    LET bold == mc_group([l \in Letters |-> bold_letter(lower, l)])
        line_start == mc_group([l \in Letters |-> line_start_letter(lower, l)])
    IN  IF bold # NoGroup THEN bold
        ELSE IF line_start # NoGroup THEN line_start
        ELSE first_bare_letter(cleaned)

extract_mc(response) ==
    LET cleaned == Strip(response)
        lower == Lower(cleaned)
        m == mc_group([l \in Letters |-> paren_letter(cleaned, l)])
        stated == mc_group([l \in Letters |-> answer_is_letter(lower, l)])
    IN  IF m # NoGroup THEN <<m>>
        ELSE IF stated # NoGroup THEN <<stated>>
        ELSE <<mc_later_passes(cleaned, lower)>>

extract_answer(llm_response, qtype) ==
    LET cleaned == Strip(llm_response)
    IN  IF cleaned = <<>> THEN UNKNOWN
        ELSE IF qtype = "tf" THEN extract_tf(cleaned)
        ELSE IF qtype = "mc" THEN extract_mc(cleaned)
        ELSE cleaned

(***************************************************************************)
(* Specifications of extract_answer as a pure function: Init draws the     *)
(* response, a concatenation of at most MaxTokens tokens, and the qtype.   *)
(***************************************************************************)
TfTokens ==
    { <<"T", "r", "u", "e">>,                  \* True
      FALSE_,                                  \* false
      <<"x", NL>>,                             \* a word that ends a line
      <<"u", "n">>,                            \* a prefix that glues to the next word
      BOLD_,
      <<":">>,
      <<SP>> \o <<"t", "h", "i", "s">> \o <<SP>> \o IS_ \o <<SP>>,   \* " this is "
      <<SP>> \o ANSWER_ \o <<SP>> \o IS_ \o <<SP>> }                 \* " answer is "

McTokens ==
    { <<"(", "b", ")">>,
      <<")">>,
      <<"b">>,
      <<"c", SP>>,
      <<"C">>,
      <<"x", "d">>,                            \* a word with one of the letters in it
      <<NL>>,
      BOLD_,
      <<SP>> \o ANSWER_ \o <<SP>> \o IS_ \o <<SP>> }                 \* " answer is "

Responses(tokens, n) == {Join(ts, <<>>) : ts \in SeqsUpTo(tokens, n)}

FilterUnused ==
    /\ questions = <<>>
    /\ answer_key = <<>>
    /\ qsections = Nothing
    /\ limit = Nothing
    /\ shuffle = FALSE
    /\ filtered = <<>>
    /\ pruned_key = <<>>

ExtractInitFor(qtype, responses) ==
    /\ DocsUnused
    /\ ExtUnused
    /\ FilterUnused
    /\ BenchUnused
    /\ AggUnused
    /\ question = [id |-> "q1", qtype |-> qtype]
    /\ llm_answer \in responses
    /\ extracted = <<>>
    /\ result = NoResult
    /\ qpc = "call"

\* tf responses, and a few responses to a short-answer question
ExtractTfInit ==
    \/ ExtractInitFor("tf", Responses(TfTokens, MaxTokens))
    \/ ExtractInitFor("sa", Responses(TfTokens, 1))

ExtractMcInit == ExtractInitFor("mc", Responses(McTokens, MaxTokens))

ExtractAnswer ==
    /\ qpc = "call"
    /\ extracted' = extract_answer(llm_answer, question.qtype)
    /\ qpc' = "done"
    /\ UNCHANGED <<question, llm_answer, result>>
    /\ UNCHANGED <<extVars, chunkVars, parseVars, indexVars, filterVars, benchVars, aggVars>>

ExtractNext == ExtractAnswer

SpecExtractTf == ExtractTfInit /\ [][ExtractNext]_vars
SpecExtractMc == ExtractMcInit /\ [][ExtractNext]_vars

(***************************************************************************)
(* Claims about extract_answer.  The passes are stated here from the text  *)
(* of a response alone: where a word or a phrase stands in it.             *)
(***************************************************************************)
MarkupChars == WS \cup {"*", "#", ">", "-"}

\* the literal w stands at position i of s
At(s, i, w) ==
    i >= 1 /\ i + Len(w) - 1 <= Len(s) /\ \A k \in 1..Len(w) : s[i + k - 1] = w[k]

\* w stands at position i of s as a whole word
WordAt(s, i, w) == At(s, i, w) /\ ~IsWordAt(s, i - 1) /\ ~IsWordAt(s, i + Len(w))

\* the positions a..(b - 1) of s hold whitespace, at least one character
Gap(s, a, b) == a < b /\ \A k \in a..(b - 1) : s[k] \in WS

WordOf == [v \in {"T", "F"} |-> IF v = "T" THEN TRUE_ ELSE FALSE_]

\* the places where the verdict word v stands in s as a whole word
VerdictWords(s, v) == {i \in 1..Len(s) : WordAt(s, i, WordOf[v])}

\* the verdict that comes first, given where each verdict is found
Earliest(found) ==
    IF found["T"] = {} /\ found["F"] = {} THEN "none"
    ELSE IF \E i \in found["T"] : \A j \in found["F"] : i <= j THEN "T"
    ELSE "F"

\* s begins with the verdict word v after leading markup
BeginsWith(s, v) ==
    \E k \in 0..Len(s) : (\A j \in 1..k : s[j] \in MarkupChars) /\ At(s, k + 1, WordOf[v])

\* the places where "<phrase> is <v>" begins in s, the phrase being one of
\* the given words standing at a word start
PhraseIs(s, phrases, v) ==
    {i \in 1..Len(s) :
        \E subj \in phrases :
            /\ At(s, i, subj) /\ ~IsWordAt(s, i - 1)
            /\ \E j \in {x \in 1..Len(s) : At(s, x, IS_)} :
                   /\ Gap(s, i + Len(subj), j)
                   /\ \E k \in VerdictWords(s, v) :
                          Gap(s, j + 2, k)}

\* the places where the bolded verdict word stands
Bolded(s, v) ==
    {i \in 1..Len(s) : At(s, i, BOLD_ \o WordOf[v] \o BOLD_)}

\* the places of a colon that the verdict word follows, whitespace apart
ColonPrefixed(s, v) ==
    {i \in 1..Len(s) :
        /\ s[i] = ":"
        /\ \E k \in (i + 1)..Len(s) :
               /\ \A j \in (i + 1)..(k - 1) : s[j] \in WS
               /\ At(s, k, WordOf[v]) /\ ~IsWordAt(s, k + Len(WordOf[v]))}

\* the text before the n-th newline of s (all of s when it has fewer)
LinesBefore(s, n) ==
    LET nls == {i \in 1..Len(s) : s[i] = NL /\ Cardinality({j \in 1..i : s[j] = NL}) = n}
    IN  IF nls = {} THEN s ELSE Take(s, SetMin(nls) - 1)

\* the verdict of each pass on the lower-cased, trimmed response s, in the
\* order of the passes; "none" when the pass does not match
TfPasses(s) ==
    LET line1 == LinesBefore(s, 1)
        lines3 == LinesBefore(s, 3)
        words == [v \in {"T", "F"} |-> VerdictWords(s, v)]
        bold == Earliest([v \in {"T", "F"} |-> Bolded(lines3, v)])
    IN  << IF BeginsWith(s, "T") THEN "T" ELSE IF BeginsWith(s, "F") THEN "F" ELSE "none",
           Earliest([v \in {"T", "F"} |-> PhraseIs(line1, Subjects, v)]),
           Earliest([v \in {"T", "F"} |-> VerdictWords(line1, v)]),
           IF bold # "none" THEN bold
           ELSE Earliest([v \in {"T", "F"} |-> ColonPrefixed(lines3, v)]),
           Earliest([v \in {"T", "F"} |-> PhraseIs(s, {ANSWER_}, v)]),
           IF words["T"] # {} /\ words["F"] = {} THEN "T"
           ELSE IF words["F"] # {} /\ words["T"] = {} THEN "F"
           ELSE "none" >>

\* the verdict of the earliest pass that matches, "?" when none does
FirstPass(passes) ==
    LET matching == {k \in 1..Len(passes) : passes[k] # "none"}
    IN  IF matching = {} THEN "?" ELSE passes[SetMin(matching)]

EarliestLetter(found) ==
    LET any == UNION {found[l] : l \in Letters}
    IN  IF any = {} THEN "none"
        ELSE CHOOSE l \in Letters : SetMin(any) \in found[l]

\* the places of the letter l between parentheses
Parenthesized(s, l) == {i \in 1..Len(s) : At(s, i, <<"(", l, ")">>)}

\* the places of the letter l, alone or after "(", that ends the phrase
\* "answer is": the letter is not followed by a word character
AnswerIsLetter(s, l) ==
    {k \in 1..Len(s) :
        /\ s[k] = l /\ ~IsWordAt(s, k + 1)
        /\ \E i \in {x \in 1..Len(s) : At(s, x, ANSWER_) /\ ~IsWordAt(s, x - 1)} :
               \E j \in {x \in 1..Len(s) : At(s, x, IS_)} :
                   /\ Gap(s, i + Len(ANSWER_), j)
                   /\ \/ Gap(s, j + 2, k)
                      \/ Gap(s, j + 2, k - 1) /\ s[k - 1] = "("}

\* the places of the bolded letter l, with or without parentheses
BoldedLetter(s, l) ==
    {i \in 1..Len(s) :
        \E w \in {<<l>>, <<"(", l>>, <<l, ")">>, <<"(", l, ")">>} : At(s, i, BOLD_ \o w \o BOLD_)}

\* the places of the letter l at the start of a line (whitespace may come
\* before it on the line) followed by a character of the class
LineStartLetter(s, l, class) ==
    {k \in 1..(Len(s) - 1) :
        /\ s[k] = l /\ s[k + 1] \in class
        /\ \E i \in 1..k : (i = 1 \/ s[i - 1] = NL) /\ \A j \in i..(k - 1) : s[j] \in WS}

\* the places of the letter l, in either case
BareLetter(c, l) == {i \in 1..Len(c) : Lower(<<c[i]>>) = <<l>>}

\* the letter of each pass on the trimmed response c, in the order of the
\* passes; "none" when the pass does not match
McPasses(c, class) ==
    LET s == Lower(c)
    IN  << EarliestLetter([l \in Letters |-> Parenthesized(c, l)]),
           EarliestLetter([l \in Letters |-> AnswerIsLetter(s, l)]),
           EarliestLetter([l \in Letters |-> BoldedLetter(s, l)]),
           EarliestLetter([l \in Letters |-> LineStartLetter(s, l, class)]),
           EarliestLetter([l \in Letters |-> BareLetter(c, l)]) >>

\* what the claim says of a response, the letter at a line start being
\* taken when a character of the class follows it
McLetterOfEarliestPass(class) ==
    (qpc = "done" /\ question.qtype = "mc" /\ Strip(llm_answer) # <<>>) =>
        LET c == Strip(llm_answer)
            passes == McPasses(c, class)
        IN  /\ extracted = <<FirstPass(passes)>>
            /\ extracted \in {<<l>> : l \in Letters} \cup {UNKNOWN}
            /\ (extracted = UNKNOWN) = (\A k \in 1..Len(passes) : passes[k] = "none")
            /\ \A l \in Letters :
                   (At(c, 1, <<"(", l, ")">>) \/ c = BOLD_ \o <<"(", l, ")">> \o BOLD_) =>
                       extracted = <<l>>

PyBool(b) == IF b THEN "True" ELSE "False"

\* mutant of answers_match: the letter case is compared too
answers_match_with_case(extracted_answer, key_answer) ==
    extracted_answer = key_answer

\* extracted.upper() == entry.answer.upper()
answers_match(extracted_answer, key_answer) ==
    Upper(extracted_answer) = Upper(key_answer)

\* mutant of grade_with_entry: every qtype is graded against the key
grade_with_entry_grades_all(q, answer, entry) ==
    LET got == extract_answer(answer, q.qtype)
        is_correct == answers_match(got, entry.answer)
    IN  [question |-> q, llm_answer |-> answer, llm_extracted |-> got,
         correct_answer |-> entry.answer, is_correct |-> PyBool(is_correct),
         score |-> IF is_correct THEN 1 ELSE -1]

\* grade_question from the extraction on, the key having an entry
grade_with_entry(q, answer, entry) ==
    LET got == extract_answer(answer, q.qtype)
        is_correct == answers_match(got, entry.answer)
    IN  [question |-> q, llm_answer |-> answer, llm_extracted |-> got,
         correct_answer |-> entry.answer,
         is_correct |-> IF q.qtype \in {"tf", "mc"} THEN PyBool(is_correct) ELSE None,
         score |-> IF q.qtype \in {"tf", "mc"} THEN (IF is_correct THEN 1 ELSE -1) ELSE 0]

grade_question(q, answer, key) ==
    IF q.id \notin DOMAIN key
    THEN [question |-> q, llm_answer |-> answer, llm_extracted |-> UNKNOWN,
          correct_answer |-> UNKNOWN, is_correct |-> None, score |-> 0]
    ELSE grade_with_entry(q, answer, key[q.id])

\* the answers a key holds: T or F, the letter of an option (the sixth
\* option is f), the model answer of a short-answer question
KeyAnswers == {<<"T">>, <<"F">>, <<"a">>, <<"b">>, <<"c">>, <<"d">>, <<"f">>, <<"x", SP, "x">>}

\* what f"[error: {e}]" gives for the message of an exception
error_sentinel(e) == <<"[", "e", "r", "r", "o", "r", ":", SP>> \o e \o <<"]">>
ErrorMessages == {<<"t", "i", "m", "e", "o", "u", "t">>,
                  <<"r", "e", "f", "u", "s", "e", "d">>}

\* answers of a model: as the prompts ask for, otherwise, empty, not
\* parseable, and the text recorded when the generation call failed
GradeResponses ==
    { <<"T", "r", "u", "e">>, <<"F", "a", "l", "s", "e", ".">>,
      <<"(", "b", ")">>, <<"C", ".">>, <<"f">>,
      <<"u", "n", "t", "r", "u", "e">>, <<SP>>, <<>> }
    \cup {error_sentinel(e) : e \in ErrorMessages}

GradeInit ==
    /\ DocsUnused
    /\ ExtUnused
    /\ BenchUnused
    /\ AggUnused
    /\ questions = <<>>
    /\ qsections = Nothing
    /\ limit = Nothing
    /\ shuffle = FALSE
    /\ filtered = <<>>
    /\ pruned_key = <<>>
    /\ question \in Questions
    /\ llm_answer \in GradeResponses
    /\ answer_key \in AnswerKeys(QuestionIds, KeyAnswers)
    /\ extracted = <<>>
    /\ result = NoResult
    /\ qpc = "call"

GradeQuestion ==
    /\ qpc = "call"
    /\ result' = grade_question(question, llm_answer, answer_key)
    /\ qpc' = "done"
    /\ UNCHANGED <<question, llm_answer, extracted, answer_key>>
    /\ UNCHANGED <<questions, qsections, limit, shuffle, filtered, pruned_key>>
    /\ UNCHANGED <<extVars, chunkVars, parseVars, indexVars, benchVars, aggVars>>

GradeNext == GradeQuestion

SpecGrade == GradeInit /\ [][GradeNext]_vars

\* C13: grade_question returns is_correct = None exactly when the qtype of
\* the question is short-answer or the key has no entry for its id; in every
\* other case is_correct is True or False.
C13_UnknownIffShortAnswerOrNoEntry ==
    qpc = "done" =>
        LET ungradable == question.qtype = "sa" \/ question.id \notin DOMAIN answer_key
        IN  /\ (result.is_correct = None) = ungradable
            /\ ~ungradable => result.is_correct \in {"True", "False"}

\* a tf question answered "True" whose id the key does not hold, the key
\* holding another id: ungradable
C13_Witness ==
    /\ qpc = "done"
    /\ question.qtype = "tf"
    /\ question.id \notin DOMAIN answer_key
    /\ DOMAIN answer_key # {}
    /\ llm_answer = <<"T", "r", "u", "e">>
    /\ result.is_correct = None

\* two answers are the same up to the case of their letters
SameIgnoringCase(a, b) == Lower(a) = Lower(b)

\* C14: for a tf or mc question with a key entry, is_correct is True iff the
\* extracted answer equals the key answer ignoring letter case; the score is
\* +1 when is_correct is True, -1 when it is False and 0 when it is None; an
\* answer extracted as "?" is graded incorrect with score -1.
C14_CorrectIffSameIgnoringCase ==
    qpc = "done" =>
        /\ result.score = (CASE result.is_correct = "True" -> 1
                             [] result.is_correct = "False" -> -1
                             [] result.is_correct = None -> 0)
        /\ (question.qtype \in {"tf", "mc"} /\ question.id \in DOMAIN answer_key) =>
               /\ result.llm_extracted = extract_answer(llm_answer, question.qtype)
               /\ (result.is_correct = "True") =
                      SameIgnoringCase(result.llm_extracted, answer_key[question.id].answer)
               /\ result.llm_extracted = UNKNOWN =>
                      (result.is_correct = "False" /\ result.score = -1)

\* a tf question answered "False." whose key answer is the letter f: the
\* extracted F equals it ignoring case
C14_Witness ==
    /\ qpc = "done"
    /\ question.qtype = "tf"
    /\ question.id \in DOMAIN answer_key
    /\ answer_key[question.id].answer = <<"f">>
    /\ result.llm_extracted = <<"F">>
    /\ result.is_correct = "True"
    /\ result.score = 1

(***************************************************************************)
(* backend/quiz_processor.py: the quiz runner and the benchmark.           *)
(***************************************************************************)
MaxConfigs == 2

\* how many results of a list have the given is_correct
count_is_correct(g, value) == Cardinality({i \in 1..Len(g) : g[i].is_correct = value})

\* _score_summary(graded); the accuracy, a quotient of two integers or 0.0,
\* is held as the pair <<numerator, denominator>>
score_summary(g) ==
    LET total == Len(g)
        correct == count_is_correct(g, "True")
        incorrect == count_is_correct(g, "False")
        ungraded == count_is_correct(g, None)
        gradable == total - ungraded
    IN  [total |-> total, correct |-> correct, incorrect |-> incorrect,
         ungraded |-> ungraded,
         accuracy |-> IF gradable > 0 THEN <<correct, gradable>> ELSE <<0, 1>>]

\* BenchmarkConfig.label: the three parts, which the code joins with " / "
label(cfg) ==
    <<cfg.mode, IF cfg.use_rag THEN "rag" ELSE "no-rag",
      IF cfg.grounded THEN "grounded" ELSE "broad">>

BenchmarkResult(cfg, s, g) ==
    [label |-> label(cfg), mode |-> cfg.mode, use_rag |-> cfg.use_rag,
     grounded |-> cfg.grounded, total |-> s.total, correct |-> s.correct,
     incorrect |-> s.incorrect, ungraded |-> s.ungraded, accuracy |-> s.accuracy,
     graded |-> g]

\* _apply_filters as run_benchmark calls it: shuffle keeps its default, False
apply_filters(qs, key, secs, lim) ==
    filter_questions(qs, key, secs, lim,
                     CHOOSE order \in shuffle_orders(Len(filter_by_sections(qs, secs)), FALSE) : TRUE)

\* mutant of run_arguments: the runner is handed the loaded questions
run_arguments_unfiltered(qs, key, cfg) ==
    [questions |-> questions, answer_key |-> answer_key,
     processor |-> cfg.use_rag /\ service.processor, mode |-> cfg.mode,
     use_rag |-> cfg.use_rag,
     grounded |-> cfg.grounded]

\* the arguments of the call of _run_questions for a configuration; the
\* processor of run_benchmark, if it was given one, is handed over only to a
\* configuration that uses it (processor is TRUE for an object, FALSE for None)
run_arguments(qs, key, cfg) ==
    [questions |-> qs, answer_key |-> key,
     processor |-> cfg.use_rag /\ service.processor, mode |-> cfg.mode,
     use_rag |-> cfg.use_rag,
     grounded |-> cfg.grounded]

\* CHAT_MODELS and QUIZ_OPTIONS as backend/config.py defines them: seven
\* modes, none of them "quick"
ShippedModes ==
    {"gemma2-9b", "llama3-3b", "llama3-8b", "mistral-7b", "phi4-14b", "qwen-7b", "qwen-14b"}

CHAT_MODELS ==
    [m \in ShippedModes |->
        CASE m = "gemma2-9b" -> "gemma2:9b"
          [] m = "llama3-3b" -> "llama3.2:3b"
          [] m = "llama3-8b" -> "llama3.1:8b"
          [] m = "mistral-7b" -> "mistral:7b"
          [] m = "phi4-14b" -> "phi4:14b"
          [] m = "qwen-7b" -> "qwen2.5-coder:7b"
          [] m = "qwen-14b" -> "qwen2.5-coder:14b"]

QUIZ_OPTIONS ==
    [m \in ShippedModes |->
        [num_ctx |-> CASE m \in {"gemma2-9b", "llama3-8b", "qwen-7b"} -> 8192
                       [] m \in {"llama3-3b", "mistral-7b"} -> 4096
                       [] OTHER -> 16384,
         num_thread |-> 8,
         num_batch |-> IF m \in {"gemma2-9b", "phi4-14b", "qwen-14b"} THEN 1024 ELSE 512,
         temperature |-> 0]]

QUIZ_NUM_PREDICT == [tf |-> 256, mc |-> 256, sa |-> 512]

\* the tables of the module as shipped
ShippedTables == [CHAT_MODELS |-> CHAT_MODELS, QUIZ_OPTIONS |-> QUIZ_OPTIONS]

\* the tables of a deployment whose config.py was given an entry "quick",
\* that of DocumentProcessor.models; the shipped module has none
TablesWithQuick ==
    [CHAT_MODELS |-> [m \in ShippedModes \cup {"quick"} |->
                         IF m = "quick" THEN "qwen2.5-coder:7b" ELSE CHAT_MODELS[m]],
     QUIZ_OPTIONS |-> [m \in ShippedModes \cup {"quick"} |->
                         IF m = "quick" THEN QUIZ_OPTIONS["qwen-7b"] ELSE QUIZ_OPTIONS[m]]]

\* d[key] of Python: defined only for a key of d, KeyError otherwise
has_key(d, key) == key \in DOMAIN d

\* d.get(key, default), the default already evaluated by the caller
dict_get(d, key, default) == IF key \in DOMAIN d THEN d[key] ELSE default

\* lines 738-739 of _run_questions evaluate CHAT_MODELS["quick"] and
\* QUIZ_OPTIONS["quick"] before the lookup of the mode, whatever the mode is:
\* they raise KeyError unless both tables have the key
resolution_raises(t, mode) ==
    ~(has_key(t.CHAT_MODELS, "quick") /\ has_key(t.QUIZ_OPTIONS, "quick"))

llm_model(t, mode) == dict_get(t.CHAT_MODELS, mode, t.CHAT_MODELS["quick"])

base_options(t, mode) == dict_get(t.QUIZ_OPTIONS, mode, t.QUIZ_OPTIONS["quick"])

\* the options of the generation call of a question: {**base_options,
\* "num_predict": QUIZ_NUM_PREDICT.get(q.qtype, 512)}
options_for(base, q) ==
    [num_ctx |-> base.num_ctx, num_thread |-> base.num_thread,
     num_batch |-> base.num_batch, temperature |-> base.temperature,
     num_predict |-> dict_get(QUIZ_NUM_PREDICT, q.qtype, 512)]

\* the documents a retrieval that finds some returns, joined
RetrievedText == <<"d", "1">>

\* local rag_context after the retrieval step: set only when the query
\* returned and its document list is not empty
rag_context(retrieval) == IF retrieval = "context" THEN Some(RetrievedText) ELSE Nothing

\* the instruction build_quiz_prompt gives for a qtype
instruction(qtype) ==
    CASE qtype = "tf" -> "Answer this True/False question"
      [] qtype = "mc" -> "Answer this multiple choice question"
      [] OTHER -> "Answer this short answer question"

\* build_quiz_prompt(question, rag_context): the parts of the prompt, which
\* the code joins with blank lines; the question stands for its text, code
\* and choices
build_quiz_prompt(q, ctx) ==
    (IF ctx # Nothing /\ ctx[1] # <<>>
     THEN <<[part |-> "Documentation context", text |-> ctx[1]]>> ELSE <<>>)
    \o <<[part |-> instruction(q.qtype), text |-> <<>>],
         [part |-> "question", text |-> <<q.id>>]>>

\* a processor is given, and the services may answer one call in one way
\* and the next in another
AnyService ==
    [processor |-> TRUE, deterministic |-> FALSE, retrieve |-> <<>>, generate |-> <<>>]

\* what the retrieval of a question can do: it is not tried without a
\* processor; tried, it returns documents, returns none, or raises
retrievals(run, q) ==
    IF run.use_rag /\ run.processor
    THEN IF service.deterministic THEN {service.retrieve[q.id]}
         ELSE {"context", "empty", "failed"}
    ELSE {"not tried"}

\* whether the generation call of a pass can return (TRUE), can raise
\* (FALSE); a deterministic service decides by the prompt, the model and the
\* options being fixed by the mode
generations(req) ==
    IF service.deterministic
    THEN {dict_get(service.generate, req.calls[Len(req.calls)].prompt, FALSE)}
    ELSE BOOLEAN

\* mutant of after_generation_error: a failed generation ends the loop
after_generation_error_ends_loop(i, n) == n + 1

\* where the loop of _run_questions goes on after the except clause
after_generation_error(i, n) == i + 1

\* the call processor.query(q.text, n_results), the question standing for
\* its text
query_call(q) == [service |-> "retriever", query |-> q.id]

\* the call ollama.chat(model, messages, options) of a question
chat_call(run, q, prompt) ==
    [service |-> "ollama", prompt |-> prompt, model |-> run.llm_model,
     options |-> options_for(run.base_options, q)]

\* mutant of requests: a grounded run tells the model to keep to the context
requests_of_grounded_run(run, q, retrieval, generated) ==
    [retrieval |-> retrieval, generated |-> generated,
     calls |-> (IF retrieval = "not tried" THEN <<>> ELSE <<query_call(q)>>)
               \o <<chat_call(run, q,
                       (IF run.grounded
                        THEN <<[part |-> "Answer only from the context", text |-> <<>>]>>
                        ELSE <<>>) \o build_quiz_prompt(q, rag_context(retrieval)))>>]

\* what one pass of the loop asks of the services, in the order of the
\* code: the retrieval query, if one is made, then the generation call
requests(run, q, retrieval, generated) ==
    [retrieval |-> retrieval, generated |-> generated,
     calls |-> (IF retrieval = "not tried" THEN <<>> ELSE <<query_call(q)>>)
               \o <<chat_call(run, q, build_quiz_prompt(q, rag_context(retrieval)))>>]

BenchConfigs ==
    {[mode |-> "quick", use_rag |-> TRUE, grounded |-> TRUE],
     [mode |-> "deep", use_rag |-> FALSE, grounded |-> FALSE]}

Q(id, qtype) == [id |-> id, qtype |-> qtype]

\* the quizzes a file holds: _load_questions returns no empty list
BenchQuizzes ==
    { <<Q("q1", "tf")>>,
      <<Q("q1", "mc"), Q("q2", "tf")>>,
      <<Q("q1", "tf"), Q("q2", "mc"), Q("q3", "sa")>> }

BenchKeys ==
    { [id \in {"q1", "q2", "q3"} |->
          [answer |-> CASE id = "q1" -> <<"T">> [] id = "q2" -> <<"d">>
                        [] id = "q3" -> <<"x", SP, "x">>]],
      [id \in {"q1"} |-> [answer |-> <<"T">>]],
      [id \in {"q1", "q2"} |->
          [answer |-> IF id = "q1" THEN <<"d">> ELSE <<"T">>]] }

\* what the model answers to a question, as the prompt of its qtype asks
model_answer(q) ==
    CASE q.qtype = "tf" -> <<"T", "r", "u", "e">>
      [] q.qtype = "mc" -> <<"(", "b", ")">>
      [] OTHER -> <<"x", SP, "x">>

RunErrors == {<<"r", "e", "f", "u", "s", "e", "d">>}

\* next((g for g in r.graded if g.question.id == qid), None)
first_graded(r, qid) ==
    LET at == {i \in 1..Len(r.graded) : r.graded[i].question.id = qid}
    IN  IF at = {} THEN Nothing ELSE Some(r.graded[SetMin(at)])

\* the test "g and g.is_correct is not None" on the entry of a result
grade_known(r, qid) ==
    /\ first_graded(r, qid) # Nothing
    /\ first_graded(r, qid)[1].is_correct # None

\* local grades of the disagreement loop for a question id: a dict keyed by
\* label, so of the results of one label the last one with a known grade stays
grades_by_label(rs, qid) ==
    LET known == {k \in 1..Len(rs) : grade_known(rs[k], qid)}
    IN  [la \in {rs[k].label : k \in known} |->
            first_graded(rs[SetMax({k \in known : rs[k].label = la})], qid)[1]]

\* "if correct_configs and wrong_configs"; not g.is_correct holds of False
\* and of None
is_disagreement(rs, qid) ==
    LET grades == grades_by_label(rs, qid)
    IN  /\ \E la \in DOMAIN grades : grades[la].is_correct = "True"
        /\ \E la \in DOMAIN grades : grades[la].is_correct # "True"

\* the ids under which the loop over all_qids writes a disagreement, in the
\* order written
disagreements_of(rs, all_qids) ==
    LET test(qid) == is_disagreement(rs, qid)
    IN  SelectSeq(all_qids, test)

\* _write_benchmark_report(results, ...): what the report says of
\* disagreements; results[0] of an empty list raises IndexError
write_benchmark_report(rs) ==
    IF rs = <<>>
    THEN [status |-> "IndexError", kind |-> "single", all_qids |-> <<>>,
          disagreements |-> <<>>, disagreement_count |-> 0]
    ELSE LET all_qids == [i \in 1..Len(rs[1].graded) |-> rs[1].graded[i].question.id]
         IN  [status |-> "written", kind |-> "single", all_qids |-> all_qids,
              disagreements |-> disagreements_of(rs, all_qids),
              disagreement_count |-> Len(disagreements_of(rs, all_qids))]

\* _write_multi_benchmark_report(summaries, ...): the aggregate table and,
\* per quiz, the ranking and the per-question table; it has no section of
\* disagreements and counts none
write_multi_benchmark_report(sums) ==
    [status |-> "written", kind |-> "multi", all_qids |-> <<>>,
     disagreements |-> <<>>, disagreement_count |-> 0]

\* the call of _run_questions for a configuration up to its loop: the
\* arguments, then the model and the options of lines 738-739
start_run(qs, key, cfg) ==
    [questions |-> qs, answer_key |-> key,
     processor |-> run_arguments(qs, key, cfg).processor,
     mode |-> cfg.mode, use_rag |-> cfg.use_rag, grounded |-> cfg.grounded,
     raised |-> resolution_raises(tables, cfg.mode),
     llm_model |-> IF resolution_raises(tables, cfg.mode) THEN ""
                   ELSE llm_model(tables, cfg.mode),
     base_options |-> IF resolution_raises(tables, cfg.mode) THEN <<>>
                      ELSE base_options(tables, cfg.mode)]

BenchInit ==
    /\ DocsUnused
    /\ ExtUnused
    /\ GradeUnused
    /\ AggUnused
    /\ questions \in BenchQuizzes
    /\ answer_key \in BenchKeys
    /\ qsections \in {Nothing, Some({"tf", "mc"})}
    /\ limit \in {Nothing, Some(1)}
    /\ shuffle = FALSE
    /\ filtered = <<>>
    /\ pruned_key = <<>>
    /\ configs \in SeqsUpTo(BenchConfigs, MaxConfigs)
    /\ ci = 0
    /\ qidx = 0
    /\ graded = <<>>
    /\ bench_results = <<>>
    /\ runs = <<>>
    /\ events = <<>>
    /\ tables \in {ShippedTables, TablesWithQuick}
    /\ logs = <<>>
    /\ service = AnyService
    /\ qpc = "call"

\* run_benchmark up to the loop of the first call of _run_questions; with
\* no configuration it goes on to write the report, which raises
RunBenchmark ==
    /\ qpc = "call"
    /\ LET out == apply_filters(questions, answer_key, qsections, limit)
       IN  /\ filtered' = out.questions
           /\ pruned_key' = out.answer_key
           /\ runs' = IF configs = <<>> THEN <<>>
                      ELSE <<start_run(out.questions, out.answer_key, configs[1])>>
    /\ ci' = 1
    /\ qidx' = 1
    /\ qpc' = IF configs = <<>> THEN "raised"
              ELSE IF resolution_raises(tables, configs[1].mode) THEN "raised"
              ELSE "run"
    /\ report' = IF configs = <<>> THEN write_benchmark_report(<<>>) ELSE report
    /\ UNCHANGED <<questions, answer_key, qsections, limit, shuffle>>
    /\ UNCHANGED <<configs, graded, bench_results, events, tables, logs, service>>
    /\ UNCHANGED <<jsonVars, multiVars, chatVars>>
    /\ UNCHANGED <<chunkVars, parseVars, indexVars, gradeVars, aggVars>>

\* one pass of the loop of _run_questions, the generation call returning
GenerationAnswers ==
    /\ qpc = "run"
    /\ qidx <= Len(runs[ci].questions)
    /\ LET run == runs[ci]
           q == run.questions[qidx]
       IN  /\ \E retrieval \in retrievals(run, q) :
                  /\ TRUE \in generations(requests(run, q, retrieval, TRUE))
                  /\ events' = Append(events, requests(run, q, retrieval, TRUE))
           /\ graded' = Append(graded, grade_question(q, model_answer(q), run.answer_key))
    /\ qidx' = qidx + 1
    /\ UNCHANGED <<configs, ci, bench_results, runs, qpc, tables, logs, service>>
    /\ UNCHANGED <<filterVars, gradeVars, aggVars>>
    /\ UNCHANGED <<extVars, chunkVars, parseVars, indexVars>>

\* one pass of the loop of _run_questions, the generation call raising
GenerationFails ==
    /\ qpc = "run"
    /\ qidx <= Len(runs[ci].questions)
    /\ LET run == runs[ci]
           q == run.questions[qidx]
       IN  /\ \E retrieval \in retrievals(run, q) :
                  /\ FALSE \in generations(requests(run, q, retrieval, FALSE))
                  /\ events' = Append(events, requests(run, q, retrieval, FALSE))
           /\ \E e \in RunErrors :
                  graded' = Append(graded, grade_question(q, error_sentinel(e), run.answer_key))
           /\ qidx' = after_generation_error(qidx, Len(run.questions))
    /\ UNCHANGED <<configs, ci, bench_results, runs, qpc, tables, logs, service>>
    /\ UNCHANGED <<filterVars, gradeVars, aggVars>>
    /\ UNCHANGED <<extVars, chunkVars, parseVars, indexVars>>

\* the end of a call of _run_questions: run_benchmark records its result and
\* calls the runner for the next configuration, or writes its report
EndRun ==
    /\ qpc = "run"
    /\ qidx > Len(runs[ci].questions)
    /\ summary' = score_summary(graded)
    /\ bench_results' = Append(bench_results,
                               BenchmarkResult(configs[ci], score_summary(graded), graded))
    /\ logs' = IF service.deterministic THEN Append(logs, events) ELSE logs
    /\ ci' = ci + 1
    /\ IF ci < Len(configs)
       THEN /\ runs' = Append(runs, start_run(filtered, pruned_key, configs[ci + 1]))
            /\ graded' = <<>>
            /\ events' = <<>>
            /\ qidx' = 1
            /\ qpc' = IF resolution_raises(tables, configs[ci + 1].mode)
                      THEN "raised" ELSE "run"
            /\ UNCHANGED report
       ELSE /\ qpc' = "done"
            /\ report' = write_benchmark_report(bench_results')
            /\ UNCHANGED <<runs, graded, events, qidx>>
    /\ UNCHANGED <<configs, summaries, agg, tables, service>>
    /\ UNCHANGED <<filterVars, gradeVars>>
    /\ UNCHANGED <<jsonVars, multiVars, chatVars, chunkVars, parseVars, indexVars>>

BenchNext == RunBenchmark \/ GenerationAnswers \/ GenerationFails \/ EndRun

SpecBench == BenchInit /\ [][BenchNext]_vars

\* the modes of the benchmarks compared: the default mode of the runner, a
\* mode of DEFAULT_BENCHMARK_CONFIGS, a mode of CHAT_MODELS
PairModes == {"quick", "deep", "qwen-7b"}

\* two configurations that differ in the grounded flag only
GroundedPairs ==
    {<<[mode |-> m, use_rag |-> r, grounded |-> g],
       [mode |-> m, use_rag |-> r, grounded |-> ~g]>> :
         m \in PairModes, r \in BOOLEAN, g \in BOOLEAN}

PairQuiz == <<Q("q1", "mc"), Q("q2", "tf")>>

\* the prompts the runner can build for the questions of PairQuiz
PairPrompts ==
    {build_quiz_prompt(PairQuiz[i], ctx) :
        i \in 1..Len(PairQuiz), ctx \in {Nothing, Some(RetrievedText)}}

\* services that answer the same call in the same way every time; the
\* processor may be missing
DeterministicServices ==
    {[processor |-> p, deterministic |-> TRUE, retrieve |-> r, generate |-> g] :
        p \in BOOLEAN,
        r \in [{"q1", "q2"} -> {"context", "empty", "failed"}],
        g \in [PairPrompts -> BOOLEAN]}

\* a benchmark of two configurations that differ in grounded only, the
\* services deterministic
GroundedInit ==
    /\ DocsUnused
    /\ ExtUnused
    /\ GradeUnused
    /\ AggUnused
    /\ questions = PairQuiz
    /\ answer_key \in BenchKeys
    /\ qsections = Nothing
    /\ limit = Nothing
    /\ shuffle = FALSE
    /\ filtered = <<>>
    /\ pruned_key = <<>>
    /\ configs \in GroundedPairs
    /\ ci = 0
    /\ qidx = 0
    /\ graded = <<>>
    /\ bench_results = <<>>
    /\ runs = <<>>
    /\ events = <<>>
    /\ tables \in {ShippedTables, TablesWithQuick}
    /\ logs = <<>>
    /\ service \in DeterministicServices
    /\ qpc = "call"

SpecGrounded == GroundedInit /\ [][BenchNext]_vars

\* the results of a list are those of the questions, one each, in order
OnePerQuestion(g, qs) ==
    /\ Len(g) = Len(qs)
    /\ \A i \in 1..Len(qs) : g[i].question = qs[i]

\* C15: whichever retrievals and generation calls fail, a call of
\* _run_questions grades the questions one after the other and returns
\* exactly one GradedQuestion per question of its input, in the order of the
\* input; the raw answer of a question whose generation call failed is the
\* error sentinel, and the questions after it are processed all the same.
C15_OneGradedQuestionPerQuestion ==
    /\ \A k \in 1..Len(runs) : ~runs[k].raised
    /\ qpc = "run" =>
           LET qs == runs[ci].questions
           IN  /\ qidx = Len(graded) + 1
               /\ Len(events) = Len(graded)
               /\ Len(graded) <= Len(qs)
               /\ \A i \in 1..Len(graded) :
                      /\ graded[i].question = qs[i]
                      /\ IF events[i].generated
                         THEN graded[i].llm_answer = model_answer(qs[i])
                         ELSE graded[i].llm_answer \in {error_sentinel(e) : e \in RunErrors}
    /\ \A k \in 1..Len(bench_results) :
           OnePerQuestion(bench_results[k].graded, runs[k].questions)
    /\ (qpc = "done" /\ configs # <<>>) =>
           /\ OnePerQuestion(graded, runs[Len(runs)].questions)
           /\ bench_results[Len(bench_results)].graded = graded

\* a run of three questions is over: the retrieval and the generation of
\* the first failed, the second was answered after a failed retrieval, the
\* generation of the third failed; all three are graded
C15_Witness ==
    /\ qpc = "done"
    /\ Len(graded) = 3
    /\ events[1].retrieval = "failed" /\ ~events[1].generated
    /\ events[2].retrieval = "failed" /\ events[2].generated
    /\ events[3].generated = FALSE
    /\ graded[1].llm_answer = error_sentinel(<<"r", "e", "f", "u", "s", "e", "d">>)
    /\ graded[2].llm_answer = <<"(", "b", ")">>
    /\ OnePerQuestion(graded, questions)

\* C18: run_benchmark filters the loaded questions once and calls the runner
\* exactly once per configuration, in the order of configs, every call with
\* the same filtered question list and answer key; the results hold one
\* BenchmarkResult per configuration in that order, each with a total that
\* is the number of filtered questions.
C18_OneRunPerConfiguration ==
    /\ \A k \in 1..Len(runs) : ~runs[k].raised
    /\ qpc \in {"run", "done"} =>
        LET out == apply_filters(questions, answer_key, qsections, limit)
            started == IF qpc = "done" THEN Len(configs) ELSE ci
            finished == IF qpc = "done" THEN Len(configs) ELSE ci - 1
        IN  /\ filtered = out.questions
            /\ pruned_key = out.answer_key
            /\ Len(runs) = started
            /\ \A k \in 1..Len(runs) :
                   /\ runs[k].questions = filtered
                   /\ runs[k].answer_key = pruned_key
                   /\ runs[k].mode = configs[k].mode
                   /\ runs[k].use_rag = configs[k].use_rag
                   /\ runs[k].grounded = configs[k].grounded
            /\ Len(bench_results) = finished
            /\ \A k \in 1..Len(bench_results) :
                   /\ bench_results[k].label = label(configs[k])
                   /\ bench_results[k].mode = configs[k].mode
                   /\ bench_results[k].total = Len(filtered)

\* a benchmark of two different configurations is over, the filter having
\* left one question of the three loaded: two runs of that question, two
\* results of total 1 in the order of the configurations
C18_Witness ==
    /\ qpc = "done"
    /\ Len(configs) = 2
    /\ configs[1] # configs[2]
    /\ Len(questions) = 3
    /\ Len(filtered) = 1
    /\ Len(runs) = 2
    /\ runs[1].questions = runs[2].questions
    /\ Len(bench_results) = 2
    /\ bench_results[1].label = label(configs[1])
    /\ bench_results[2].label = label(configs[2])
    /\ bench_results[2].total = 1

\* the numbers of a summary are those of the claim: the three counts add up
\* to the total, and the accuracy is correct / (total - ungraded), or 0 when
\* nothing is gradable, hence between 0 and 1
SummaryNumbers(r) ==
    /\ r.total = r.correct + r.incorrect + r.ungraded
    /\ r.accuracy = IF r.total - r.ungraded > 0
                    THEN <<r.correct, r.total - r.ungraded>> ELSE <<0, 1>>
    /\ 0 <= r.accuracy[1]
    /\ r.accuracy[1] <= r.accuracy[2]

\* the raw answer is the text recorded for a failed generation call
Errored(g) == g.llm_answer \in {error_sentinel(e) : e \in RunErrors}

\* C19: the summary of a list of graded questions has total = correct +
\* incorrect + ungraded and accuracy = correct / (total - ungraded), 0 when
\* nothing is gradable, so between 0 and 1; a tf or mc answer that errored or
\* could not be parsed is one of the incorrect ones, inside the denominator.
C19_ErroredAnswersCountAsIncorrect ==
    \A k \in 1..Len(bench_results) :
        LET r == bench_results[k]
            failed == {i \in 1..Len(r.graded) :
                          /\ r.graded[i].question.qtype \in {"tf", "mc"}
                          /\ r.graded[i].question.id \in DOMAIN runs[k].answer_key
                          /\ (Errored(r.graded[i]) \/ r.graded[i].llm_extracted = UNKNOWN)}
        IN  /\ SummaryNumbers(r)
            /\ \A i \in failed : r.graded[i].is_correct = "False"
            /\ Cardinality(failed) <= r.incorrect

(***************************************************************************)
(* backend/quiz_processor.py: the aggregate of a multi-quiz benchmark.     *)
(***************************************************************************)
MaxQuizzes == 2

\* the entry _aggregate_by_config makes for a label it has not seen
NoAggregate ==
    [total |-> 0, correct |-> 0, incorrect |-> 0, ungraded |-> 0, quiz_accuracies |-> <<>>]

\* the body of the inner loop: the result r is added to the entry a
add_result(a, r) ==
    [total |-> a.total + r.total, correct |-> a.correct + r.correct,
     incorrect |-> a.incorrect + r.incorrect, ungraded |-> a.ungraded + r.ungraded,
     quiz_accuracies |-> Append(a.quiz_accuracies, r.accuracy)]

\* the inner loop, over the results of one quiz
RECURSIVE add_results(_, _)
add_results(ag, rs) ==
    IF rs = <<>> THEN ag
    ELSE LET r == Head(rs)
             a == IF r.label \in DOMAIN ag THEN ag[r.label] ELSE NoAggregate
         IN  add_results([l \in DOMAIN ag \cup {r.label} |->
                              IF l = r.label THEN add_result(a, r) ELSE ag[l]],
                         Tail(rs))

\* the outer loop, over the quizzes
RECURSIVE add_summaries(_, _)
add_summaries(ag, ss) ==
    IF ss = <<>> THEN ag
    ELSE add_summaries(add_results(ag, Head(ss).results), Tail(ss))

\* a / b + c / d, for two quotients held as pairs
AddFraction(x, y) == <<x[1] * y[2] + y[1] * x[2], x[2] * y[2]>>

RECURSIVE SumFractions(_)
SumFractions(xs) ==
    IF xs = <<>> THEN <<0, 1>> ELSE AddFraction(Head(xs), SumFractions(Tail(xs)))

\* the mean of a list of quotients that is not empty
MeanFraction(xs) == LET sum == SumFractions(xs) IN <<sum[1], sum[2] * Len(xs)>>

\* two pairs hold the same quotient
SameFraction(x, y) == x[1] * y[2] = y[1] * x[2]

\* mutant of with_accuracy: the accuracy is the mean of those of the quizzes
with_accuracy_mean(a) ==
    [total |-> a.total, correct |-> a.correct, incorrect |-> a.incorrect,
     ungraded |-> a.ungraded, quiz_accuracies |-> a.quiz_accuracies,
     accuracy |-> MeanFraction(a.quiz_accuracies)]

\* the second loop: the accuracy of an entry, from its sums
with_accuracy(a) ==
    LET gradable == a.total - a.ungraded
    IN  [total |-> a.total, correct |-> a.correct, incorrect |-> a.incorrect,
         ungraded |-> a.ungraded, quiz_accuracies |-> a.quiz_accuracies,
         accuracy |-> IF gradable > 0 THEN <<a.correct, gradable>> ELSE <<0, 1>>]

aggregate_by_config(ss) ==
    LET ag == add_summaries(<<>>, ss)
    IN  [l \in DOMAIN ag |-> with_accuracy(ag[l])]

\* the configuration lists of a multi-quiz benchmark: one configuration, two
\* configurations, the same configuration given twice
AggConfigLists ==
    LET a == [mode |-> "quick", use_rag |-> TRUE, grounded |-> TRUE]
        b == [mode |-> "deep", use_rag |-> FALSE, grounded |-> FALSE]
    IN  {<<a>>, <<a, b>>, <<a, a>>}

\* how many questions a benchmarked quiz has: it has one at least
QuizSizes == {1, 2}

\* how a run of n questions can come out: correct, incorrect, ungraded
Outcomes(n) ==
    {o \in (0..n) \X (0..n) \X (0..n) : o[1] + o[2] + o[3] = n}

\* a graded list with these outcomes; _score_summary reads is_correct only
graded_as(o) ==
    [k \in 1..(o[1] + o[2] + o[3]) |->
        [is_correct |-> IF k <= o[1] THEN "True"
                        ELSE IF k <= o[1] + o[2] THEN "False" ELSE None]]

\* the QuizBenchmarkSummary values run_multi_benchmark can append for these
\* configurations: one BenchmarkResult per configuration, all of one quiz
QuizSummaries(cfgs) ==
    UNION {{[results |-> [k \in 1..Len(cfgs) |->
                             BenchmarkResult(cfgs[k], score_summary(graded_as(os[k])),
                                             graded_as(os[k]))]] :
               os \in [1..Len(cfgs) -> Outcomes(n)]} : n \in QuizSizes}

AggInit ==
    /\ DocsUnused
    /\ ExtUnused
    /\ GradeUnused
    /\ questions = <<>>
    /\ answer_key = <<>>
    /\ qsections = Nothing
    /\ limit = Nothing
    /\ shuffle = FALSE
    /\ filtered = <<>>
    /\ pruned_key = <<>>
    /\ configs \in AggConfigLists
    /\ ci = 0
    /\ qidx = 0
    /\ graded = <<>>
    /\ bench_results = <<>>
    /\ runs = <<>>
    /\ events = <<>>
    /\ tables = <<>>
    /\ logs = <<>>
    /\ service = <<>>
    /\ summary = NoSummary
    /\ summaries \in SeqsUpTo(QuizSummaries(configs), MaxQuizzes) \ {<<>>}
    /\ agg = <<>>
    /\ qpc = "call"

AggregateByConfig ==
    /\ qpc = "call"
    /\ agg' = aggregate_by_config(summaries)
    /\ qpc' = "done"
    /\ UNCHANGED <<summary, summaries>>
    /\ UNCHANGED <<filterVars, gradeVars, benchVars>>
    /\ UNCHANGED <<extVars, chunkVars, parseVars, indexVars>>

AggNext == AggregateByConfig

SpecAggregate == AggInit /\ [][AggNext]_vars

RECURSIVE SumSeq(_)
SumSeq(xs) == IF xs = <<>> THEN 0 ELSE Head(xs) + SumSeq(Tail(xs))

\* the total, over the quizzes, of a field of the results of a configuration
SumOfCorrect(l) ==
    SumSeq([q \in 1..Len(summaries) |->
        SumSeq([k \in 1..Len(summaries[q].results) |->
            IF summaries[q].results[k].label = l THEN summaries[q].results[k].correct ELSE 0])])
SumOfIncorrect(l) ==
    SumSeq([q \in 1..Len(summaries) |->
        SumSeq([k \in 1..Len(summaries[q].results) |->
            IF summaries[q].results[k].label = l THEN summaries[q].results[k].incorrect ELSE 0])])
SumOfUngraded(l) ==
    SumSeq([q \in 1..Len(summaries) |->
        SumSeq([k \in 1..Len(summaries[q].results) |->
            IF summaries[q].results[k].label = l THEN summaries[q].results[k].ungraded ELSE 0])])
SumOfTotal(l) ==
    SumSeq([q \in 1..Len(summaries) |->
        SumSeq([k \in 1..Len(summaries[q].results) |->
            IF summaries[q].results[k].label = l THEN summaries[q].results[k].total ELSE 0])])

\* C20: the aggregate has one entry per configuration label; its total,
\* correct, incorrect and ungraded are the sums of those of the results of
\* that configuration over all the quizzes, and its accuracy is (sum of
\* correct) / (sum of total - sum of ungraded), 0 when that denominator is 0:
\* the quotient of the sums, whatever the accuracies of the single quizzes are.
C20_AggregateSumsThenDivides ==
    qpc = "done" =>
        /\ DOMAIN agg = {label(configs[k]) : k \in 1..Len(configs)}
        /\ \A l \in DOMAIN agg :
               LET gradable == SumOfTotal(l) - SumOfUngraded(l)
               IN  /\ agg[l].total = SumOfTotal(l)
                   /\ agg[l].correct = SumOfCorrect(l)
                   /\ agg[l].incorrect = SumOfIncorrect(l)
                   /\ agg[l].ungraded = SumOfUngraded(l)
                   /\ SameFraction(agg[l].accuracy,
                                   IF gradable > 0 THEN <<SumOfCorrect(l), gradable>> ELSE <<0, 1>>)

\* two quizzes under one configuration: one question, correct (accuracy 1),
\* and two questions, both incorrect (accuracy 0); the aggregate accuracy is
\* 1/3, and the mean of the two accuracies is 1/2
C20_Witness ==
    /\ qpc = "done"
    /\ Len(configs) = 1
    /\ Len(summaries) = 2
    /\ summaries[1].results[1].accuracy = <<1, 1>>
    /\ summaries[2].results[1].accuracy = <<0, 2>>
    /\ LET a == agg[label(configs[1])]
       IN  /\ a.total = 3
           /\ a.accuracy = <<1, 3>>
           /\ SameFraction(MeanFraction(a.quiz_accuracies), <<1, 2>>)
           /\ ~SameFraction(a.accuracy, MeanFraction(a.quiz_accuracies))

MaxTurns == 2        \* the largest max_turns of a ChatHistory
MaxAdded == 3        \* the most turns added between two clears

\* deque.append on a deque(maxlen=n): the oldest items make room
deque_append(d, item, n) ==
    LET all == Append(d, item)
    IN  IF Len(all) > n THEN SubSeq(all, Len(all) - n + 1, Len(all)) ELSE all

\* mutant of history_add: a full history refuses the new turn
history_add_keeps_oldest(h, q, a, n) ==
    IF Len(h) >= n THEN h ELSE Append(h, <<q, a>>)

\* ChatHistory.add
history_add(h, q, a, n) == deque_append(h, <<q, a>>, n)

\* ChatHistory.format_for_prompt, as the turns it shows
format_for_prompt(h) == h

ChatQuestions == {"q1", "q2"}
ChatAnswers == {"a1"}
NO_DOCUMENTS == "No relevant documents found in the knowledge base."

ChatInit ==
    /\ DocsUnused
    /\ GradeUnused
    /\ BenchUnused
    /\ AggUnused
    /\ JsonUnused
    /\ MultiUnused
    /\ ReportUnused
    /\ questions = <<>>
    /\ answer_key = <<>>
    /\ qsections = Nothing
    /\ limit = Nothing
    /\ shuffle = FALSE
    /\ filtered = <<>>
    /\ pruned_key = <<>>
    /\ qpc = "none"
    /\ history = <<>>
    /\ max_turns \in 0..MaxTurns
    /\ added = <<>>
    /\ ask = NoAsk

ChatUnchanged ==
    UNCHANGED <<filterVars, gradeVars, benchVars, aggVars, qpc, jsonVars, multiVars,
                reportVars, chunkVars, parseVars, indexVars>>

HistoryAdd(q, a) ==
    /\ Len(added) < MaxAdded
    /\ history' = history_add(history, q, a, max_turns)
    /\ added' = Append(added, <<q, a>>)
    /\ UNCHANGED <<max_turns, ask>>
    /\ ChatUnchanged

HistoryClear ==
    /\ history' = <<>>
    /\ added' = <<>>
    /\ UNCHANGED <<max_turns, ask>>
    /\ ChatUnchanged

\* mutant of answers_without_documents: no document ends the call in both modes
answers_without_documents_never(grounded) == FALSE

\* ask_question goes on to the generation call when retrieval gave no document
answers_without_documents(grounded) == ~grounded

\* the call of ollama.chat: the prompt has the history block when a history
\* that is not empty was given, and the documents as context
generation_call(q, documents, history_given) ==
    [question |-> q,
     context |-> IF documents = "none" THEN <<>> ELSE <<documents>>,
     history_block |-> IF history_given /\ Len(history) > 0
                       THEN format_for_prompt(history) ELSE <<>>]

\* ask_question whose query raises: the exception leaves the generator
AskQueryFails(q, grounded, history_given) ==
    /\ ask' = [NoAsk EXCEPT !.question = q, !.grounded = grounded,
                            !.history_given = history_given,
                            !.documents = "query failed", !.outcome = "raised",
                            !.history_before = history, !.history_after = history]
    /\ UNCHANGED <<history, max_turns, added>>
    /\ ChatUnchanged

\* ask_question, run to its end, retrieval having returned: no document
\* ("none") or some
AskQuestion(q, grounded, history_given, documents, answer) ==
    /\ Len(added) < MaxAdded
    /\ LET started == [NoAsk EXCEPT !.question = q, !.grounded = grounded,
                                    !.history_given = history_given,
                                    !.documents = documents,
                                    !.history_before = history]
           gen == generation_call(q, documents, history_given)
       IN  IF documents = "none" /\ ~answers_without_documents(grounded)
           THEN /\ ask' = [started EXCEPT !.yielded = <<NO_DOCUMENTS>>,
                                          !.outcome = "returned",
                                          !.history_after = history]
                /\ UNCHANGED <<history, added>>
           ELSE IF answer = "raised"
           THEN /\ ask' = [started EXCEPT !.generation_calls = <<gen>>,
                                          !.yielded = <<"error message">>,
                                          !.outcome = "returned",
                                          !.history_after = history]
                /\ UNCHANGED <<history, added>>
           ELSE LET after == IF history_given
                             THEN history_add(history, q, answer, max_turns)
                             ELSE history
                IN  /\ ask' = [started EXCEPT !.generation_calls = <<gen>>,
                                              !.yielded = <<answer, "sources">>,
                                              !.outcome = "returned",
                                              !.history_after = after]
                    /\ history' = after
                    /\ added' = IF history_given THEN Append(added, <<q, answer>>)
                                ELSE added
    /\ UNCHANGED max_turns
    /\ ChatUnchanged

ChatNext ==
    \/ \E q \in ChatQuestions, a \in ChatAnswers : HistoryAdd(q, a)
    \/ HistoryClear
    \/ \E q \in ChatQuestions, grounded \in BOOLEAN, history_given \in BOOLEAN :
           AskQueryFails(q, grounded, history_given)
    \/ \E q \in ChatQuestions, grounded \in BOOLEAN, history_given \in BOOLEAN,
          documents \in {"none", "doc"}, answer \in ChatAnswers \cup {"raised"} :
           AskQuestion(q, grounded, history_given, documents, answer)

SpecChat == ChatInit /\ [][ChatNext]_vars

\* C24: in ask_question, when retrieval returns no document: with
\* grounded=true the call yields only the fixed message, issues no
\* generation call and leaves the history as it was; with grounded=false
\* exactly one generation call is issued, with an empty context.
C24_NoDocuments ==
    (ask.outcome = "returned" /\ ask.documents = "none") =>
        IF ask.grounded
        THEN /\ ask.yielded = <<NO_DOCUMENTS>>
             /\ ask.generation_calls = <<>>
             /\ ask.history_after = ask.history_before
        ELSE /\ Len(ask.generation_calls) = 1
             /\ ask.generation_calls[1].context = <<>>

\* a call with grounded=false that found no document made its generation
\* call with the empty context and added its turn to the history
C24_Witness ==
    /\ ask.outcome = "returned"
    /\ ask.documents = "none"
    /\ ~ask.grounded
    /\ ask.history_given
    /\ Len(ask.generation_calls) = 1
    /\ ask.generation_calls[1].context = <<>>
    /\ ask.yielded = <<"a1", "sources">>
    /\ ask.history_after # ask.history_before

\* the last n items of a sequence, all of them when it has fewer
LastOf(xs, n) == IF Len(xs) <= n THEN xs ELSE SubSeq(xs, Len(xs) - n + 1, Len(xs))

\* C26: after any adds and clears on a ChatHistory with max_turns = N >= 1,
\* the history holds at most N turns: the min(k, N) most recent of the k
\* turns added since the last clear, oldest first.
C26_HistoryIsMostRecentTurns ==
    max_turns >= 1 =>
        /\ Len(history) <= max_turns
        /\ history = LastOf(added, max_turns)

\* three turns were added to a history of two since the last clear: the
\* first of the three is evicted
C26_Witness ==
    /\ max_turns = 2
    /\ Len(added) = 3
    /\ added[1] # added[2]
    /\ history = <<added[2], added[3]>>

(***************************************************************************)
(* The grade of an answer that is an error sentinel (checked under         *)
(* SpecGrade).                                                             *)
(***************************************************************************)
\* C28: a tf or mc question whose raw answer is the error sentinel of a
\* failed generation call is never graded correct: whatever the error
\* message and the key answer, is_correct is False when the key has an entry.
C28_ErrorSentinelNeverCorrect ==
    (/\ qpc = "done"
     /\ question.qtype \in {"tf", "mc"}
     /\ llm_answer \in {error_sentinel(e) : e \in ErrorMessages}) =>
        /\ result.is_correct # "True"
        /\ question.id \in DOMAIN answer_key => result.is_correct = "False"

\* C29: whatever the mode of a call of _run_questions, the call resolves a
\* model and options without raising: a mode that CHAT_MODELS / QUIZ_OPTIONS
\* hold gets its own entry, any other mode the entry "quick"; every
\* generation call is made with temperature 0 and the output cap of the
\* qtype of its question.
C29_EveryModeResolves ==
    /\ \A k \in 1..Len(runs) :
           /\ ~runs[k].raised
           /\ runs[k].llm_model =
                  IF runs[k].mode \in DOMAIN tables.CHAT_MODELS
                  THEN tables.CHAT_MODELS[runs[k].mode] ELSE tables.CHAT_MODELS["quick"]
           /\ runs[k].base_options =
                  IF runs[k].mode \in DOMAIN tables.QUIZ_OPTIONS
                  THEN tables.QUIZ_OPTIONS[runs[k].mode] ELSE tables.QUIZ_OPTIONS["quick"]
    /\ qpc = "run" =>
           \A i \in 1..Len(events) :
               \A c \in 1..Len(events[i].calls) :
                   events[i].calls[c].service = "ollama" =>
                       /\ events[i].calls[c].options.temperature = 0
                       /\ events[i].calls[c].options.num_predict =
                              IF runs[ci].questions[i].qtype = "sa" THEN 512 ELSE 256

\* the calls of a pass of the loop that go to a service
calls_to(e, svc) == {c \in 1..Len(e.calls) : e.calls[c].service = svc}

has_context_block(prompt) ==
    \E p \in 1..Len(prompt) : prompt[p].part = "Documentation context"

\* C25: the runner gets to every question of a call; in the pass of a
\* question the retriever is queried at most once, and is queried iff
\* use_rag is set and the processor is not None, before the generation call;
\* exactly one generation call is made; the prompt has no context block when
\* the retriever was not queried, raised, or returned no document.
C25_OneQueryThenOneGeneration ==
    /\ \A k \in 1..Len(runs) : ~runs[k].raised
    /\ qpc \in {"run", "done"} /\ configs # <<>> =>
           LET run == runs[Len(runs)]
           IN  /\ qpc = "done" => Len(events) = Len(run.questions)
               /\ \A i \in 1..Len(events) :
                      LET e == events[i]
                          queries == calls_to(e, "retriever")
                          chats == calls_to(e, "ollama")
                      IN  /\ Cardinality(queries) =
                                 IF run.use_rag /\ run.processor THEN 1 ELSE 0
                          /\ \A c \in queries : e.calls[c].query = run.questions[i].id
                          /\ Cardinality(chats) = 1
                          /\ \A c \in queries : \A d \in chats : c < d
                          /\ e.retrieval \in {"not tried", "failed", "empty"} =>
                                 \A d \in chats : ~has_context_block(e.calls[d].prompt)

MaxQuizzesInFile == 2    \* most quizzes of a JSON document given to parse_json_quiz

\* chr(ord("a") + i)
letter_of(i) == <<"a", "b", "c", "d">>[i + 1]

\* the section types parse_json_quiz reads, and the qtype each gives
qtype_of(sec_type) ==
    CASE sec_type = "true_false" -> "tf"
      [] sec_type = "multiple_choice" -> "mc"
      [] sec_type = "short_answer" -> "sa"
      [] OTHER -> ""

\* the values of the JSON documents are held as their JSON text: int() of
\* an index, and the characters of a model answer
int_of(text) == CASE text = "0" -> 0 [] text = "1" -> 1 [] text = "2" -> 2 [] text = "3" -> 3

chars_of(text) == IF text = "x x" THEN <<"x", SP, "x">> ELSE <<text>>

\* the answer of the key entry of a question of a section
key_answer(sec_type, q) ==
    CASE sec_type = "true_false" -> IF q.answer = "true" THEN <<"T">> ELSE <<"F">>
      [] sec_type = "multiple_choice" -> <<letter_of(int_of(q.answer))>>
      [] OTHER -> chars_of(q.answer)

\* the questions and key entries one section adds: none for a type that is
\* not one of the three
section_questions(sec) ==
    IF qtype_of(sec.type) = "" THEN <<>>
    ELSE [i \in 1..Len(sec.questions) |->
             [id |-> sec.questions[i].id, qtype |-> qtype_of(sec.type),
              answer |-> key_answer(sec.type, sec.questions[i])]]

RECURSIVE quiz_entries(_)
quiz_entries(secs) ==
    IF secs = <<>> THEN <<>>
    ELSE section_questions(Head(secs)) \o quiz_entries(Tail(secs))

\* local questions after the loops over the sections of a quiz
quiz_questions(quiz) ==
    [i \in 1..Len(quiz_entries(quiz.sections)) |->
        [id |-> quiz_entries(quiz.sections)[i].id,
         qtype |-> quiz_entries(quiz.sections)[i].qtype]]

\* local answer_key after the loops: the last entry written for an id stays
quiz_answer_key(quiz) ==
    LET es == quiz_entries(quiz.sections)
    IN  [id \in {es[i].id : i \in 1..Len(es)} |->
            [answer |-> es[SetMax({i \in 1..Len(es) : es[i].id = id})].answer]]

\* [q.get("id", "?") for q in quizzes]
available_ids(quizzes) ==
    [i \in 1..Len(quizzes) |-> IF quizzes[i].id = Nothing THEN "?" ELSE quizzes[i].id[1]]

\* mutant of quiz_id_given: every quiz_id but None selects
quiz_id_given_not_none(qid) == qid # Nothing

\* the test "if quiz_id:": None and the empty string do not select
quiz_id_given(qid) == qid # Nothing /\ qid[1] # ""

\* the quizzes q with q.get("id") == quiz_id
matching(quizzes, qid) == {i \in 1..Len(quizzes) : quizzes[i].id = qid}

parse_error(message, quizzes) ==
    [status |-> "ValueError", questions |-> <<>>, answer_key |-> <<>>,
     metadata |-> <<>>, error |-> message, available |-> available_ids(quizzes)]

parse_of(quiz) ==
    [status |-> "returned", questions |-> quiz_questions(quiz),
     answer_key |-> quiz_answer_key(quiz),
     metadata |-> [quiz_id |-> IF quiz.id = Nothing THEN "" ELSE quiz.id[1]],
     error |-> "", available |-> <<>>]

\* parse_json_quiz(data, quiz_id), data standing for data.get("quizzes", [])
parse_json_quiz(quizzes, qid) ==
    IF quizzes = <<>> THEN parse_error("No quizzes found in JSON file", <<>>)
    ELSE IF quiz_id_given(qid)
         THEN IF matching(quizzes, qid) = {}
              THEN parse_error("Quiz not found. Available:", quizzes)
              ELSE parse_of(quizzes[SetMin(matching(quizzes, qid))])
         ELSE IF Len(quizzes) = 1 THEN parse_of(quizzes[1])
              ELSE parse_error("Multiple quizzes in file. Specify --quiz-id. Available:",
                               quizzes)

\* the quizzes of the documents parsed: two of the same id, one without id,
\* one with a section of a type that is not read
JsonQuizzes ==
    { [id |-> Some("w1"),
       sections |-> <<[type |-> "true_false",
                       questions |-> <<[id |-> "q1", answer |-> "true"]>>]>>],
      [id |-> Some("w2"),
       sections |-> <<[type |-> "multiple_choice",
                       questions |-> <<[id |-> "q1", answer |-> "3"],
                                       [id |-> "q2", answer |-> "0"]>>],
                      [type |-> "essay",
                       questions |-> <<[id |-> "q3", answer |-> "x"]>>]>>],
      [id |-> Nothing,
       sections |-> <<[type |-> "short_answer",
                       questions |-> <<[id |-> "q3", answer |-> "x x"]>>]>>],
      [id |-> Some("w1"),
       sections |-> <<[type |-> "true_false",
                       questions |-> <<[id |-> "q2", answer |-> "false"]>>]>>] }

QuizIds == {Nothing, Some(""), Some("w1"), Some("w3")}

JsonInit ==
    /\ DocsUnused
    /\ FilterUnused
    /\ GradeUnused
    /\ BenchUnused
    /\ AggUnused
    /\ MultiUnused
    /\ ChatUnused
    /\ ReportUnused
    /\ data \in SeqsUpTo(JsonQuizzes, MaxQuizzesInFile)
    /\ quiz_id \in QuizIds
    /\ parsed = [status |-> "none"]
    /\ qpc = "call"

ParseJsonQuiz ==
    /\ qpc = "call"
    /\ parsed' = parse_json_quiz(data, quiz_id)
    /\ qpc' = IF parse_json_quiz(data, quiz_id).status = "returned" THEN "done" ELSE "raised"
    /\ UNCHANGED <<data, quiz_id, multiVars, chatVars, reportVars>>
    /\ UNCHANGED <<filterVars, gradeVars, benchVars, aggVars>>
    /\ UNCHANGED <<chunkVars, parseVars, indexVars>>

JsonNext == ParseJsonQuiz

SpecJson == JsonInit /\ [][JsonNext]_vars

\* the call returned the questions of the quiz at position i, and of no other
ReturnedQuiz(i) ==
    /\ parsed.status = "returned"
    /\ parsed.questions = quiz_questions(data[i])
    /\ parsed.answer_key = quiz_answer_key(data[i])

\* the call failed with an error that lists the ids, and returned nothing
FailedListingIds ==
    /\ parsed.status = "ValueError"
    /\ parsed.available = available_ids(data)
    /\ parsed.questions = <<>>

MaxFiles == 2    \* most quiz paths given to run_multi_benchmark

\* a quiz file of suffix .json: whether the path exists, what json.load makes
\* of its text ("invalid": not JSON, "list": a JSON array, "object": a JSON
\* object), and the quizzes of the object
QuizFile(exists, json, quizzes) == [exists |-> exists, json |-> json, quizzes |-> quizzes]

OnlyEssays ==
    [id |-> Some("w4"),
     sections |-> <<[type |-> "essay", questions |-> <<[id |-> "q1", answer |-> "x"]>>]>>]

TfQuiz ==
    [id |-> Some("w1"),
     sections |-> <<[type |-> "true_false",
                     questions |-> <<[id |-> "q1", answer |-> "true"]>>]>>]

McQuiz ==
    [id |-> Some("w2"),
     sections |-> <<[type |-> "multiple_choice",
                     questions |-> <<[id |-> "q1", answer |-> "3"],
                                     [id |-> "q2", answer |-> "0"]>>]>>]

QuizFiles ==
    { QuizFile(FALSE, "invalid", <<>>),           \* no such file
      QuizFile(TRUE, "invalid", <<>>),            \* text that is not JSON
      QuizFile(TRUE, "list", <<>>),               \* the JSON document []
      QuizFile(TRUE, "object", <<>>),             \* no quizzes
      QuizFile(TRUE, "object", <<TfQuiz, McQuiz>>),
      QuizFile(TRUE, "object", <<OnlyEssays>>),   \* a quiz that gives no question
      QuizFile(TRUE, "object", <<TfQuiz>>),
      QuizFile(TRUE, "object", <<McQuiz>>) }

\* _load_questions(quiz_path) of a .json path: what it returns, or the class
\* of the exception it raises
load_questions(file) ==
    IF ~file.exists THEN [status |-> "FileNotFoundError", questions |-> <<>>, answer_key |-> <<>>]
    ELSE IF file.json = "invalid"
         THEN [status |-> "ValueError", questions |-> <<>>, answer_key |-> <<>>]
    ELSE IF file.json = "list"
         THEN [status |-> "AttributeError", questions |-> <<>>, answer_key |-> <<>>]
    ELSE LET p == parse_json_quiz(file.quizzes, Nothing)
         IN  IF p.status # "returned" \/ p.questions = <<>>
             THEN [status |-> "ValueError", questions |-> <<>>, answer_key |-> <<>>]
             ELSE [status |-> "returned", questions |-> p.questions,
                   answer_key |-> p.answer_key]

\* the except clause of the load: (FileNotFoundError, ValueError)
caught_at_load(status) == status \in {"FileNotFoundError", "ValueError"}

\* the file the loop of run_multi_benchmark is at, loaded and filtered
loaded == load_questions(quiz_files[qi])
kept == apply_filters(loaded.questions, loaded.answer_key, qsections, limit)

\* the runs of the kept questions of a file, one per configuration, the
\* generation calls of a run all answering or all failing
quiz_results(qs, key, answered) ==
    [c \in 1..Len(configs) |->
        LET g == [i \in 1..Len(qs) |->
                     grade_question(qs[i],
                                    IF answered[c] THEN model_answer(qs[i])
                                    ELSE error_sentinel(<<"r", "e", "f", "u", "s", "e", "d">>),
                                    key)]
        IN  BenchmarkResult(configs[c], score_summary(g), g)]

\* whether a call of _run_questions of the file raises at lines 738-739
a_run_raises == \E c \in 1..Len(configs) : resolution_raises(tables, configs[c].mode)

MultiConfigs ==
    <<[mode |-> "qwen-7b", use_rag |-> FALSE, grounded |-> FALSE],
      [mode |-> "deep", use_rag |-> FALSE, grounded |-> FALSE]>>

MultiInit ==
    /\ DocsUnused
    /\ GradeUnused
    /\ AggUnused
    /\ JsonUnused
    /\ ChatUnused
    /\ ReportUnused
    /\ questions = <<>>
    /\ answer_key = <<>>
    /\ qsections \in {Nothing, Some({"mc"})}
    /\ limit = Nothing
    /\ shuffle = FALSE
    /\ filtered = <<>>
    /\ pruned_key = <<>>
    /\ configs = MultiConfigs
    /\ ci = 0
    /\ qidx = 0
    /\ graded = <<>>
    /\ bench_results = <<>>
    /\ runs = <<>>
    /\ events = <<>>
    /\ tables \in {ShippedTables, TablesWithQuick}
    /\ logs = <<>>
    /\ service = AnyService
    /\ quiz_files \in SeqsUpTo(QuizFiles, MaxFiles)
    /\ qi = 1
    /\ all_summaries = <<>>
    /\ qpc = "call"

MultiUnchanged ==
    /\ UNCHANGED <<quiz_files, jsonVars, chatVars>>
    /\ UNCHANGED <<filterVars, gradeVars, benchVars, aggVars>>
    /\ UNCHANGED <<chunkVars, parseVars, indexVars>>

\* a pass of the loop whose load raises an exception the handler takes
LoadSkips ==
    /\ qpc = "call"
    /\ qi <= Len(quiz_files)
    /\ loaded.status # "returned"
    /\ caught_at_load(loaded.status)
    /\ qi' = qi + 1
    /\ UNCHANGED <<all_summaries, qpc>>
    /\ UNCHANGED report
    /\ MultiUnchanged

\* a pass of the loop whose load raises any other exception: it leaves
\* run_multi_benchmark
LoadRaises ==
    /\ qpc = "call"
    /\ qi <= Len(quiz_files)
    /\ loaded.status # "returned"
    /\ ~caught_at_load(loaded.status)
    /\ qpc' = "raised"
    /\ UNCHANGED <<all_summaries, qi>>
    /\ UNCHANGED report
    /\ MultiUnchanged

\* a pass of the loop that loads the file and filters all its questions away
FilterSkips ==
    /\ qpc = "call"
    /\ qi <= Len(quiz_files)
    /\ loaded.status = "returned"
    /\ kept.questions = <<>>
    /\ qi' = qi + 1
    /\ UNCHANGED <<all_summaries, qpc>>
    /\ UNCHANGED report
    /\ MultiUnchanged

\* a pass of the loop that runs the file under every configuration
BenchmarkFile ==
    /\ qpc = "call"
    /\ qi <= Len(quiz_files)
    /\ loaded.status = "returned"
    /\ kept.questions # <<>>
    /\ IF a_run_raises
       THEN /\ qpc' = "raised"
            /\ UNCHANGED <<all_summaries, qi>>
       ELSE /\ \E answered \in [1..Len(configs) -> BOOLEAN] :
                   all_summaries' =
                       Append(all_summaries,
                              [quiz_path |-> qi,
                               results |-> quiz_results(kept.questions, kept.answer_key,
                                                        answered)])
            /\ qi' = qi + 1
            /\ UNCHANGED qpc
    /\ UNCHANGED report
    /\ MultiUnchanged

\* after the loop: the report of all_summaries is written, or nothing is
\* when all_summaries is empty
EndMultiBenchmark ==
    /\ qpc = "call"
    /\ qi > Len(quiz_files)
    /\ qpc' = "done"
    /\ report' = IF all_summaries = <<>> THEN report
                 ELSE write_multi_benchmark_report(all_summaries)
    /\ UNCHANGED <<all_summaries, qi>>
    /\ MultiUnchanged

MultiNext == LoadSkips \/ LoadRaises \/ FilterSkips \/ BenchmarkFile \/ EndMultiBenchmark

SpecMulti == MultiInit /\ [][MultiNext]_vars

\* the paths before position n whose file loads and keeps a question
benchmarkable(n) ==
    {i \in 1..(n - 1) :
        /\ load_questions(quiz_files[i]).status = "returned"
        /\ apply_filters(load_questions(quiz_files[i]).questions,
                         load_questions(quiz_files[i]).answer_key,
                         qsections, limit).questions # <<>>}

\* C21: run_multi_benchmark does not end by an exception, whatever the quiz
\* files are; the summaries it has after the files before position qi are
\* those of the files that loaded and kept a question, in the order of the
\* paths, each with one result per configuration; at the end they are those
\* of all such files.
C21_FailingFilesAreSkipped ==
    /\ qpc # "raised"
    /\ qpc \in {"call", "done"} =>
           /\ {all_summaries[k].quiz_path : k \in 1..Len(all_summaries)} = benchmarkable(qi)
           /\ \A j \in 1..Len(all_summaries) : \A k \in 1..Len(all_summaries) :
                  j < k => all_summaries[j].quiz_path < all_summaries[k].quiz_path
           /\ \A k \in 1..Len(all_summaries) :
                  Len(all_summaries[k].results) = Len(configs)
    /\ qpc = "done" => qi = Len(quiz_files) + 1

(***************************************************************************)
(* backend/quiz_processor.py: the disagreements of the benchmark reports.  *)
(***************************************************************************)
\* the question ids of the quizzes reported: one question, two questions,
\* two questions of one id
ReportQids == {<<"q1">>, <<"q1", "q2">>, <<"q1", "q1">>}

\* the graded list of a run over the questions ids, reduced to what the
\* report reads of it
GradedLists(ids) ==
    {[i \in 1..Len(ids) |-> [question |-> Q(ids[i], "tf"), is_correct |-> c[i]]] :
        c \in [1..Len(ids) -> {"True", "False", None}]}

\* the results of a benchmark of the configurations of BenchConfigs, which
\* may be listed twice, over one list of questions
ReportResults ==
    UNION {SeqsUpTo({[label |-> label(cfg), graded |-> g] :
                        cfg \in BenchConfigs, g \in GradedLists(ids)}, MaxConfigs) :
              ids \in ReportQids}

ReportInit ==
    /\ DocsUnused
    /\ FilterUnused
    /\ GradeUnused
    /\ AggUnused
    /\ JsonUnused
    /\ MultiUnused
    /\ ChatUnused
    /\ configs = <<>>
    /\ ci = 0
    /\ qidx = 0
    /\ graded = <<>>
    /\ bench_results \in ReportResults
    /\ runs = <<>>
    /\ events = <<>>
    /\ tables = <<>>
    /\ logs = <<>>
    /\ service = <<>>
    /\ report = [status |-> "none"]
    /\ qpc = "call"

ReportUnchanged ==
    /\ UNCHANGED <<filterVars, gradeVars, benchVars, aggVars>>
    /\ UNCHANGED <<jsonVars, multiVars, chatVars, chunkVars, parseVars, indexVars>>

\* the report of run_benchmark is written for the results
WriteBenchmarkReport ==
    /\ qpc = "call"
    /\ report' = write_benchmark_report(bench_results)
    /\ qpc' = IF bench_results = <<>> THEN "raised" ELSE "done"
    /\ ReportUnchanged

\* the report of run_multi_benchmark is written for one quiz of these results
WriteMultiBenchmarkReport ==
    /\ qpc = "call"
    /\ report' = write_multi_benchmark_report(<<[quiz_path |-> 1, results |-> bench_results]>>)
    /\ qpc' = "done"
    /\ ReportUnchanged

ReportNext == WriteBenchmarkReport \/ WriteMultiBenchmarkReport

SpecReport == ReportInit /\ [][ReportNext]_vars

\* the ids of the questions of the results
ResultQids ==
    IF bench_results = <<>> THEN {}
    ELSE {bench_results[1].graded[i].question.id : i \in 1..Len(bench_results[1].graded)}

\* the grade the configuration at position k has for a question id
GradeOf(k, qid) == first_graded(bench_results[k], qid)[1].is_correct

\* among the configurations whose grade of the id is known, one has it
\* correct and one incorrect
ConfigsDisagree(qid) ==
    /\ \E k \in 1..Len(bench_results) : GradeOf(k, qid) = "True"
    /\ \E k \in 1..Len(bench_results) : GradeOf(k, qid) = "False"

Reported == {report.disagreements[i] : i \in 1..Len(report.disagreements)}

\* C22: in the report of a benchmark of one quiz and in that of several,
\* the ids reported as disagreements are those on which two configurations
\* with known grades differ, one correct and one incorrect, and the count
\* reported is the number of these ids.
C22_DisagreementsInEveryReport ==
    (qpc = "done" /\ bench_results # <<>>) =>
        /\ Reported = {qid \in ResultQids : ConfigsDisagree(qid)}
        /\ report.disagreement_count =
               Cardinality({qid \in ResultQids : ConfigsDisagree(qid)})

\* the labels of the results differ, and so do the ids of their questions
DistinctLabels ==
    \A j \in 1..Len(bench_results) : \A k \in 1..Len(bench_results) :
        bench_results[j].label = bench_results[k].label => j = k

DistinctQids ==
    bench_results # <<>> => Cardinality(ResultQids) = Len(bench_results[1].graded)

\* the last result of a label whose grade of the id is known
LastKnown(la, qid) ==
    SetMax({k \in 1..Len(bench_results) :
               /\ bench_results[k].label = la
               /\ GradeOf(k, qid) # None})

\* of the labels with a known grade of the id, taking for each label its
\* last result with a known grade, one has it correct and one incorrect
LabelsDisagree(qid) ==
    LET las == {bench_results[k].label :
                   k \in {j \in 1..Len(bench_results) : GradeOf(j, qid) # None}}
    IN  /\ \E la \in las : GradeOf(LastKnown(la, qid), qid) = "True"
        /\ \E la \in las : GradeOf(LastKnown(la, qid), qid) = "False"

\* what the report of one quiz lists: in the order of the questions of the
\* first result and once per occurrence of an id there, the ids on which the
\* labels disagree, a label standing for its last result with a known grade;
\* it counts the entries listed. When the labels differ and the ids differ
\* these are the ids on which two configurations with known grades differ
SingleReportListsLabelDisagreements ==
    (qpc = "done" /\ report.kind = "single") =>
        /\ \A i \in 1..Len(report.disagreements) : LabelsDisagree(report.disagreements[i])
        /\ \A qid \in ResultQids :
               Cardinality({i \in 1..Len(report.disagreements) :
                               report.disagreements[i] = qid}) =
                   IF LabelsDisagree(qid)
                   THEN Cardinality({i \in 1..Len(report.all_qids) : report.all_qids[i] = qid})
                   ELSE 0
        /\ report.disagreement_count = Len(report.disagreements)
        /\ (DistinctLabels /\ DistinctQids) =>
               /\ Reported = {qid \in ResultQids : ConfigsDisagree(qid)}
               /\ report.disagreement_count =
                      Cardinality({qid \in ResultQids : ConfigsDisagree(qid)})

\* the report of several quizzes: nothing is listed, even where
\* configurations differ
MultiReportListsNothing ==
    (qpc = "done" /\ report.kind = "multi") =>
        report.disagreements = <<>> /\ report.disagreement_count = 0

====
